---- MODULE Spec2Model ----
(***************************************************************************)
(* web-bot-auth: HTTP Message Signatures (RFC 9421) with the web-bot-auth  *)
(* profile.  Model of crates/web-bot-auth/src/components.rs and lib.rs.    *)
(*                                                                         *)
(* Text (header values, the signature base) is a sequence of symbols; a    *)
(* symbol is a TLA+ string standing for an indivisible run of characters.  *)
(* A Rust String that is stored in an sfv::String, sfv::Key or sfv::Token  *)
(* is one symbol; a component value is a sequence of symbols.              *)
(***************************************************************************)
EXTENDS Integers, Sequences, FiniteSets, TLC

(***************************************************************************)
(* Characters classes of the strings the model draws.                      *)
(***************************************************************************)

\* Strings holding a byte >= 0x80 (str::is_ascii is false).
NonAsciiStrings == {"caf<U+00E9>"}

\* ASCII strings holding a byte outside 0x20..0x7E (sfv::String rejects them).
ControlStrings == {"line<LF>feed"}

\* str::is_ascii
IsAscii(s) == s \notin NonAsciiStrings

\* sfv::String::from_string / sfv::StringRef::from_str accept printable ASCII only.
IsSfvString(s) == s \notin (NonAsciiStrings \cup ControlStrings)

\* The nine derived component names of RFC 9421 as the code spells them.
DerivedNames ==
    {"@authority", "@method", "@path", "@target-uri", "@scheme", "@status",
     "@query", "@request-target", "@query-param"}

\* str::starts_with('@') on the strings of the model.
StartsWithAt(s) == s \in DerivedNames \cup {"@notacomponent", "@Authority"}

\* str::to_ascii_lowercase on the strings of the model.
ToAsciiLowercase(s) ==
    CASE s = "Content-Length" -> "content-length"
      [] s = "Signature-Agent" -> "signature-agent"
      [] s = "@Authority" -> "@authority"
      [] OTHER -> s

(***************************************************************************)
(* SFV kernel (crate sfv, RFC 8941): values.                               *)
(***************************************************************************)

\* sfv::BareItem; s holds a String/Token/ByteSequence, n an Integer or Boolean.
BareString(s) == [type |-> "string", s |-> s, n |-> 0]
BareInteger(n) == [type |-> "integer", s |-> "", n |-> n]
BareBoolean(b) == [type |-> "boolean", s |-> "", n |-> IF b THEN 1 ELSE 0]
BareToken(s) == [type |-> "token", s |-> s, n |-> 0]
BareByteSequence(s) == [type |-> "bytes", s |-> s, n |-> 0]

\* Option<T>
None == [some |-> FALSE]
Some(v) == [some |-> TRUE, v |-> v]

\* Result<T, ImplementationError>
Ok(v) == [ok |-> TRUE, val |-> v]
Err(e) == [ok |-> FALSE, err |-> e]

\* BareItem::as_boolean / as_string / as_integer
as_boolean(b) == IF b.type = "boolean" THEN Some(b.n = 1) ELSE None
as_string(b) == IF b.type = "string" THEN Some(b.s) ELSE None
as_integer(b) == IF b.type = "integer" THEN Some(b.n) ELSE None

\* sfv::Parameters is an IndexMap<Key, BareItem>: a sequence of [key, val]
\* with pairwise distinct keys, in insertion order.
ParamKeys(params) == {params[i].key : i \in DOMAIN params}

\* IndexMap::insert: a present key keeps its place and takes the new value.
ParamsInsert(params, key, val) ==
    IF key \in ParamKeys(params)
    THEN [i \in DOMAIN params |->
            IF params[i].key = key THEN [key |-> key, val |-> val] ELSE params[i]]
    ELSE Append(params, [key |-> key, val |-> val])

\* IndexMap::contains_key
ParamsContainsKey(params, key) == key \in ParamKeys(params)

\* IndexMap::get
ParamsGet(params, key) ==
    IF key \in ParamKeys(params)
    THEN Some(params[CHOOSE i \in DOMAIN params : params[i].key = key].val)
    ELSE None

\* sfv::Item and sfv::InnerList; sfv::ListEntry is one or the other.
Item(bare, params) == [bare_item |-> bare, params |-> params]
InnerList(items, params) == [items |-> items, params |-> params]
EntryItem(item) ==
    [kind |-> "item", bare_item |-> item.bare_item, items |-> <<>>, params |-> item.params]
EntryInnerList(il) ==
    [kind |-> "innerlist", bare_item |-> BareBoolean(TRUE), items |-> il.items,
     params |-> il.params]

(***************************************************************************)
(* SFV kernel: serialization (RFC 8941 section 4.1).                       *)
(***************************************************************************)

RECURSIVE Concat(_)
\* the concatenation of a sequence of texts
Concat(texts) ==
    IF texts = <<>> THEN <<>> ELSE Head(texts) \o Concat(Tail(texts))

RECURSIVE Join(_, _)
\* the texts with sep between neighbours
Join(texts, sep) ==
    IF texts = <<>> THEN <<>>
    ELSE IF Len(texts) = 1 THEN texts[1]
    ELSE texts[1] \o sep \o Join(Tail(texts), sep)

SerializeBareItem(b) ==
    CASE b.type = "string" -> <<"\"", b.s, "\"">>
      [] b.type = "integer" -> <<ToString(b.n)>>
      [] b.type = "boolean" -> <<IF b.n = 1 THEN "?1" ELSE "?0">>
      [] b.type = "token" -> <<b.s>>
      [] b.type = "bytes" -> <<":", b.s, ":">>

\* a parameter whose value is Boolean true is written as its key alone
SerializeParameters(params) ==
    Concat([i \in DOMAIN params |->
        <<";", params[i].key>> \o
        (IF params[i].val = BareBoolean(TRUE) THEN <<>>
         ELSE <<"=">> \o SerializeBareItem(params[i].val))])

SerializeItem(item) ==
    SerializeBareItem(item.bare_item) \o SerializeParameters(item.params)

SerializeInnerList(il) ==
    <<"(">> \o Join([i \in DOMAIN il.items |-> SerializeItem(il.items[i])], <<" ">>)
    \o <<")">> \o SerializeParameters(il.params)

SerializeEntry(e) ==
    IF e.kind = "innerlist" THEN SerializeInnerList(e)
    ELSE SerializeItem(e)

\* SerializeValue for Vec<ListEntry>: None for an empty list
SerializeList(entries) ==
    IF entries = <<>> THEN None
    ELSE Some(Join([i \in DOMAIN entries |-> SerializeEntry(entries[i])], <<", ">>))

\* a dictionary member: key=value, or the key and parameters alone for Boolean true
SerializeMember(m) ==
    IF m.entry.kind = "item" /\ m.entry.bare_item = BareBoolean(TRUE)
    THEN <<m.key>> \o SerializeParameters(m.entry.params)
    ELSE <<m.key, "=">> \o SerializeEntry(m.entry)

SerializeDictionary(dict) ==
    Join([i \in DOMAIN dict |-> SerializeMember(dict[i])], <<", ">>)

(***************************************************************************)
(* SFV kernel: parsing (RFC 8941 section 4.2) over symbols.  Each step     *)
(* hands what it read to the operator that continues from there.           *)
(***************************************************************************)

\* Largest magnitude of an sfv::Integer (999,999,999,999,999 in the crate),
\* scaled to the clock readings of the model.
SfvIntegerMax == 6

\* sfv::Key symbols the lexer knows.
KeySymbols ==
    {"sf", "bs", "tr", "req", "key", "name", "invalid",
     "alg", "keyid", "nonce", "tag", "created", "expires",
     "sig1", "sig2"}

\* sfv::Token symbols the lexer knows.
TokenSymbols == {"tok", "ed25519"}

IsIntegerSymbol(sym) == \E n \in (0 - SfvIntegerMax)..SfvIntegerMax : ToString(n) = sym
IntegerOfSymbol(sym) == CHOOSE n \in (0 - SfvIntegerMax)..SfvIntegerMax : ToString(n) = sym

\* what is left of a text after its first k symbols
Drop(t, k) == SubSeq(t, k + 1, Len(t))

\* a parser step's result: the value read and the rest of the text
Parsed(v, rest) == [ok |-> TRUE, val |-> v, rest |-> rest]
ParseFail == [ok |-> FALSE]

ParseBareItem(t) ==
    IF t = <<>> THEN ParseFail
    ELSE IF t[1] = "\"" THEN
        IF Len(t) >= 2 /\ t[2] = "\"" THEN Parsed(BareString(""), Drop(t, 2))
        ELSE IF Len(t) >= 3 /\ t[3] = "\"" /\ IsSfvString(t[2])
             THEN Parsed(BareString(t[2]), Drop(t, 3))
        ELSE ParseFail
    ELSE IF t[1] = ":" THEN
        IF Len(t) >= 3 /\ t[3] = ":" THEN Parsed(BareByteSequence(t[2]), Drop(t, 3))
        ELSE ParseFail
    ELSE IF t[1] = "?1" THEN Parsed(BareBoolean(TRUE), Drop(t, 1))
    ELSE IF t[1] = "?0" THEN Parsed(BareBoolean(FALSE), Drop(t, 1))
    ELSE IF IsIntegerSymbol(t[1]) THEN Parsed(BareInteger(IntegerOfSymbol(t[1])), Drop(t, 1))
    ELSE IF t[1] \in TokenSymbols THEN Parsed(BareToken(t[1]), Drop(t, 1))
    ELSE ParseFail

RECURSIVE ParseParametersFrom(_, _)
RECURSIVE ParameterAfterValue(_, _, _)

\* reads ;key or ;key=value while a ";" follows; a repeated key overwrites
ParseParametersFrom(t, acc) ==
    IF t = <<>> \/ t[1] # ";" THEN Parsed(acc, t)
    ELSE IF Len(t) < 2 \/ t[2] \notin KeySymbols THEN ParseFail
    ELSE IF Len(t) >= 3 /\ t[3] = "="
         THEN ParameterAfterValue(t[2], acc, ParseBareItem(Drop(t, 3)))
    ELSE ParseParametersFrom(Drop(t, 2), ParamsInsert(acc, t[2], BareBoolean(TRUE)))

\* the parameter key with the value b read for it
ParameterAfterValue(key, acc, b) ==
    IF b.ok THEN ParseParametersFrom(b.rest, ParamsInsert(acc, key, b.val))
    ELSE ParseFail

ParseParameters(t) == ParseParametersFrom(t, <<>>)

\* the item of bare item bare and the parameters p read after it
ItemAfterParameters(bare, p) ==
    IF p.ok THEN Parsed(Item(bare, p.val), p.rest) ELSE ParseFail

\* the item whose bare item b was read
ItemAfterBareItem(b) ==
    IF b.ok THEN ItemAfterParameters(b.val, ParseParameters(b.rest)) ELSE ParseFail

ParseItemText(t) == ItemAfterBareItem(ParseBareItem(t))

RECURSIVE ParseInnerItems(_, _)
RECURSIVE InnerItemsAfterItem(_, _)

\* the items of an inner list up to and including its ")"
ParseInnerItems(t, acc) ==
    IF t = <<>> THEN ParseFail
    ELSE IF t[1] = ")" THEN Parsed(acc, Drop(t, 1))
    ELSE IF t[1] = " " THEN ParseInnerItems(Drop(t, 1), acc)
    ELSE InnerItemsAfterItem(acc, ParseItemText(t))

\* an item of an inner list is followed by a space or by the ")"
InnerItemsAfterItem(acc, i) ==
    IF ~i.ok THEN ParseFail
    ELSE IF i.rest # <<>> /\ i.rest[1] \in {" ", ")"}
         THEN ParseInnerItems(i.rest, Append(acc, i.val))
    ELSE ParseFail

\* the inner list of these items and the parameters p read after its ")"
InnerListAfterParameters(items, p) ==
    IF p.ok THEN Parsed(InnerList(items, p.val), p.rest) ELSE ParseFail

InnerListAfterItems(is) ==
    IF is.ok THEN InnerListAfterParameters(is.val, ParseParameters(is.rest))
    ELSE ParseFail

ParseInnerList(t) ==
    IF t = <<>> \/ t[1] # "(" THEN ParseFail
    ELSE InnerListAfterItems(ParseInnerItems(Drop(t, 1), <<>>))

EntryOfInnerList(il) ==
    IF il.ok THEN Parsed(EntryInnerList(il.val), il.rest) ELSE ParseFail

EntryOfItem(i) ==
    IF i.ok THEN Parsed(EntryItem(i.val), i.rest) ELSE ParseFail

\* an item or an inner list
ParseEntry(t) ==
    IF t # <<>> /\ t[1] = "(" THEN EntryOfInnerList(ParseInnerList(t))
    ELSE EntryOfItem(ParseItemText(t))

\* a dictionary member without "=": Boolean true with the parameters p
EntryOfBareKey(p) ==
    IF p.ok THEN Parsed(EntryItem(Item(BareBoolean(TRUE), p.val)), p.rest)
    ELSE ParseFail

\* sfv::Dictionary is an IndexMap<Key, ListEntry>
DictKeys(dict) == {dict[i].key : i \in DOMAIN dict}

DictInsert(dict, key, entry) ==
    IF key \in DictKeys(dict)
    THEN [i \in DOMAIN dict |->
            IF dict[i].key = key THEN [key |-> key, entry |-> entry] ELSE dict[i]]
    ELSE Append(dict, [key |-> key, entry |-> entry])

RECURSIVE ParseMembers(_, _)
RECURSIVE MembersAfterEntry(_, _, _)

\* the members of a dictionary, the text standing at a key
ParseMembers(t, acc) ==
    IF t = <<>> \/ t[1] \notin KeySymbols THEN ParseFail
    ELSE MembersAfterEntry(t[1], acc,
             IF Len(t) >= 2 /\ t[2] = "=" THEN ParseEntry(Drop(t, 2))
             ELSE EntryOfBareKey(ParseParameters(Drop(t, 1))))

\* the member key with the entry m read for it; ", " leads to the next member
MembersAfterEntry(key, acc, m) ==
    IF ~m.ok THEN ParseFail
    ELSE IF m.rest = <<>> THEN Parsed(DictInsert(acc, key, m.val), <<>>)
    ELSE IF m.rest[1] = ", "
         THEN ParseMembers(Drop(m.rest, 1), DictInsert(acc, key, m.val))
    ELSE ParseFail

DictionaryOfMembers(d) == IF d.ok THEN Ok(d.val) ELSE Err("sfv")

\* sfv::Parser::parse_dictionary: an empty text is the empty dictionary
ParseDictionary(t) ==
    IF t = <<>> THEN Ok(<<>>) ELSE DictionaryOfMembers(ParseMembers(t, <<>>))

WholeItem(i) == IF i.ok /\ i.rest = <<>> THEN Ok(i.val) ELSE Err("sfv")

\* sfv::Parser::parse_item: the whole text is one item
ParseItem(t) == WholeItem(ParseItemText(t))

\* IndexMap::get / shift_remove: the entry under key, if any
DictGet(dict, key) ==
    IF key \in DictKeys(dict)
    THEN Some(dict[CHOOSE i \in DOMAIN dict : dict[i].key = key].entry)
    ELSE None

(***************************************************************************)
(* components.rs: covered components and their conversions.                *)
(***************************************************************************)

\* enum HTTPFieldParameters; s is the string of Key, "" otherwise
Sf == [tag |-> "Sf", s |-> ""]
Bs == [tag |-> "Bs", s |-> ""]
Tr == [tag |-> "Tr", s |-> ""]
Req == [tag |-> "Req", s |-> ""]
Key(k) == [tag |-> "Key", s |-> k]

\* enum QueryParamParameters (Req is shared with HTTPFieldParameters::Req)
Name(k) == [tag |-> "Name", s |-> k]

\* CoveredComponent::HTTP(HTTPField { name, parameters })
HTTP(name, parameters) ==
    [kind |-> "HTTP", name |-> name, variant |-> "", req |-> FALSE,
     parameters |-> parameters]

\* CoveredComponent::Derived(DerivedComponent::<variant> { req })
Derived(variant, req) ==
    [kind |-> "Derived", name |-> "", variant |-> variant, req |-> req,
     parameters |-> <<>>]

\* CoveredComponent::Derived(DerivedComponent::QueryParams { parameters })
QueryParams(parameters) ==
    [kind |-> "Derived", name |-> "", variant |-> "QueryParams", req |-> FALSE,
     parameters |-> parameters]

RECURSIVE HTTPFieldParametersLoopKeyUnseen(_, _, _, _, _)
\* the loop below as it runs when the key arm never sets key_seen
HTTPFieldParametersLoopKeyUnseen(value, output, bs_seen, sf_seen, key_seen) ==
    IF value = <<>> THEN Ok(output)
    ELSE
    LET key == Head(value).key
        bare_item == Head(value).val
        rest == Tail(value)
    IN CASE key = "sf" ->
              IF ~as_boolean(bare_item).some THEN Err("ParsingError")
              ELSE IF as_boolean(bare_item).v THEN
                  IF bs_seen \/ key_seen THEN Err("ParsingError")
                  ELSE HTTPFieldParametersLoopKeyUnseen(rest, Append(output, Sf),
                                               bs_seen, TRUE, key_seen)
              ELSE HTTPFieldParametersLoopKeyUnseen(rest, output, bs_seen, sf_seen, key_seen)
         [] key = "bs" ->
              IF ~as_boolean(bare_item).some THEN Err("ParsingError")
              ELSE IF as_boolean(bare_item).v THEN
                  IF sf_seen \/ key_seen THEN Err("ParsingError")
                  ELSE HTTPFieldParametersLoopKeyUnseen(rest, Append(output, Bs),
                                               TRUE, sf_seen, key_seen)
              ELSE HTTPFieldParametersLoopKeyUnseen(rest, output, bs_seen, sf_seen, key_seen)
         [] key = "tr" ->
              IF ~as_boolean(bare_item).some THEN Err("ParsingError")
              ELSE IF as_boolean(bare_item).v
                   THEN HTTPFieldParametersLoopKeyUnseen(rest, Append(output, Tr),
                                                bs_seen, sf_seen, key_seen)
              ELSE HTTPFieldParametersLoopKeyUnseen(rest, output, bs_seen, sf_seen, key_seen)
         [] key = "req" ->
              IF ~as_boolean(bare_item).some THEN Err("ParsingError")
              ELSE IF as_boolean(bare_item).v
                   THEN HTTPFieldParametersLoopKeyUnseen(rest, Append(output, Req),
                                                bs_seen, sf_seen, key_seen)
              ELSE HTTPFieldParametersLoopKeyUnseen(rest, output, bs_seen, sf_seen, key_seen)
         [] key = "key" ->
              IF sf_seen \/ bs_seen THEN Err("ParsingError")
              ELSE IF ~as_string(bare_item).some THEN Err("ParsingError")
              ELSE HTTPFieldParametersLoopKeyUnseen(rest, Append(output, Key(as_string(bare_item).v)),
                                           bs_seen, sf_seen, key_seen)
         [] OTHER -> Err("ParsingError")

RECURSIVE HTTPFieldParametersLoop(_, _, _, _, _)
\* the loop of TryFrom<sfv::Parameters> for HTTPFieldParametersSet
HTTPFieldParametersLoop(value, output, bs_seen, sf_seen, key_seen) ==
    IF value = <<>> THEN Ok(output)
    ELSE
    LET key == Head(value).key
        bare_item == Head(value).val
        rest == Tail(value)
    IN CASE key = "sf" ->
              IF ~as_boolean(bare_item).some THEN Err("ParsingError")
              ELSE IF as_boolean(bare_item).v THEN
                  IF bs_seen \/ key_seen THEN Err("ParsingError")
                  ELSE HTTPFieldParametersLoop(rest, Append(output, Sf),
                                               bs_seen, TRUE, key_seen)
              ELSE HTTPFieldParametersLoop(rest, output, bs_seen, sf_seen, key_seen)
         [] key = "bs" ->
              IF ~as_boolean(bare_item).some THEN Err("ParsingError")
              ELSE IF as_boolean(bare_item).v THEN
                  IF sf_seen \/ key_seen THEN Err("ParsingError")
                  ELSE HTTPFieldParametersLoop(rest, Append(output, Bs),
                                               TRUE, sf_seen, key_seen)
              ELSE HTTPFieldParametersLoop(rest, output, bs_seen, sf_seen, key_seen)
         [] key = "tr" ->
              IF ~as_boolean(bare_item).some THEN Err("ParsingError")
              ELSE IF as_boolean(bare_item).v
                   THEN HTTPFieldParametersLoop(rest, Append(output, Tr),
                                                bs_seen, sf_seen, key_seen)
              ELSE HTTPFieldParametersLoop(rest, output, bs_seen, sf_seen, key_seen)
         [] key = "req" ->
              IF ~as_boolean(bare_item).some THEN Err("ParsingError")
              ELSE IF as_boolean(bare_item).v
                   THEN HTTPFieldParametersLoop(rest, Append(output, Req),
                                                bs_seen, sf_seen, key_seen)
              ELSE HTTPFieldParametersLoop(rest, output, bs_seen, sf_seen, key_seen)
         [] key = "key" ->
              IF sf_seen \/ bs_seen THEN Err("ParsingError")
              ELSE IF ~as_string(bare_item).some THEN Err("ParsingError")
              ELSE HTTPFieldParametersLoop(rest, Append(output, Key(as_string(bare_item).v)),
                                           bs_seen, sf_seen, TRUE)
         [] OTHER -> Err("ParsingError")

\* TryFrom<sfv::Parameters> for HTTPFieldParametersSet
HTTPFieldParametersSetTryFrom(value) ==
    HTTPFieldParametersLoop(value, <<>>, FALSE, FALSE, FALSE)

RECURSIVE HTTPFieldParametersToSfvLoop(_, _, _)
\* the loop of TryFrom<HTTPFieldParametersSet> for sfv::Parameters; set is the
\* set of tags already written (req_set, bs_set, sf_set, key_set, tr_set)
HTTPFieldParametersToSfvLoop(value, parameters, set) ==
    IF value = <<>> THEN Ok(parameters)
    ELSE
    LET param == Head(value)
        rest == Tail(value)
    IN CASE param.tag = "Sf" ->
              IF "Sf" \in set THEN Err("ParsingError")
              ELSE IF "Bs" \in set \/ "Key" \in set THEN Err("ParsingError")
              ELSE HTTPFieldParametersToSfvLoop(rest,
                      ParamsInsert(parameters, "sf", BareBoolean(TRUE)), set \cup {"Sf"})
         [] param.tag = "Bs" ->
              IF "Bs" \in set THEN Err("ParsingError")
              ELSE IF "Sf" \in set \/ "Key" \in set THEN Err("ParsingError")
              ELSE HTTPFieldParametersToSfvLoop(rest,
                      ParamsInsert(parameters, "bs", BareBoolean(TRUE)), set \cup {"Bs"})
         [] param.tag = "Tr" ->
              IF "Tr" \in set THEN Err("ParsingError")
              ELSE HTTPFieldParametersToSfvLoop(rest,
                      ParamsInsert(parameters, "tr", BareBoolean(TRUE)), set \cup {"Tr"})
         [] param.tag = "Req" ->
              IF "Req" \in set THEN Err("ParsingError")
              ELSE HTTPFieldParametersToSfvLoop(rest,
                      ParamsInsert(parameters, "req", BareBoolean(TRUE)), set \cup {"Req"})
         [] param.tag = "Key" ->
              IF "Key" \in set THEN Err("ParsingError")
              ELSE IF ~IsSfvString(param.s) THEN Err("ImpossibleSfvError")
              ELSE HTTPFieldParametersToSfvLoop(rest,
                      ParamsInsert(parameters, "key", BareString(param.s)), set \cup {"Key"})

\* the conversion below as it runs when the parameters are taken back to front
HTTPFieldParametersSetToSfvReversed(value) ==
    HTTPFieldParametersToSfvLoop([i \in DOMAIN value |-> value[Len(value) + 1 - i]],
                                 <<>>, {})

\* TryFrom<HTTPFieldParametersSet> for sfv::Parameters
HTTPFieldParametersSetToSfv(value) ==
    HTTPFieldParametersToSfvLoop(value, <<>>, {})

\* Ok(sfv::Item { bare_item: String(name), params: params? })
ItemOfParameters(name, params) ==
    IF params.ok THEN Ok(Item(BareString(name), params.val)) ELSE params

\* TryFrom<HTTPField> for sfv::Item: the name is written as it is held
HTTPFieldToItem(value) ==
    IF ~IsSfvString(value.name) THEN Err("ParsingError")
    ELSE ItemOfParameters(value.name, HTTPFieldParametersSetToSfv(value.parameters))

RECURSIVE QueryParamParametersLoop(_, _, _, _)
\* the loop of TryFrom<sfv::Parameters> for QueryParamParametersSet
QueryParamParametersLoop(value, output, req_seen, name_seen) ==
    IF value = <<>> THEN Ok(output)
    ELSE
    LET key == Head(value).key
        bare_item == Head(value).val
        rest == Tail(value)
    IN CASE key = "req" ->
              IF ~as_boolean(bare_item).some THEN Err("ParsingError")
              ELSE IF as_boolean(bare_item).v THEN
                  IF req_seen THEN Err("ParsingError")
                  ELSE QueryParamParametersLoop(rest, Append(output, Req), TRUE, name_seen)
              ELSE QueryParamParametersLoop(rest, output, req_seen, name_seen)
         [] key = "name" ->
              IF ~as_string(bare_item).some THEN Err("ParsingError")
              ELSE IF name_seen THEN Err("ParsingError")
              ELSE QueryParamParametersLoop(rest, Append(output, Name(as_string(bare_item).v)),
                                            req_seen, TRUE)
         [] OTHER -> Err("ParsingError")

\* TryFrom<sfv::Parameters> for QueryParamParametersSet
QueryParamParametersSetTryFrom(value) ==
    QueryParamParametersLoop(value, <<>>, FALSE, FALSE)

RECURSIVE QueryParamParametersToSfvLoopReqUnseen(_, _, _, _)
\* the loop below as it runs when the Req arm never sets req_seen
QueryParamParametersToSfvLoopReqUnseen(value, sfv_parameters, req_seen, name_seen) ==
    IF value = <<>> THEN Ok(sfv_parameters)
    ELSE
    LET param == Head(value)
        rest == Tail(value)
    IN CASE param.tag = "Req" ->
              IF req_seen THEN Err("ParsingError")
              ELSE QueryParamParametersToSfvLoopReqUnseen(rest,
                      ParamsInsert(sfv_parameters, "req", BareBoolean(TRUE)), req_seen, name_seen)
         [] param.tag = "Name" ->
              IF name_seen THEN Err("ParsingError")
              ELSE IF ~IsSfvString(param.s) THEN Err("ParsingError")
              ELSE QueryParamParametersToSfvLoopReqUnseen(rest,
                      ParamsInsert(sfv_parameters, "name", BareString(param.s)),
                      req_seen, TRUE)

RECURSIVE QueryParamParametersToSfvLoop(_, _, _, _)
\* the loop of TryFrom<QueryParamParametersSet> for sfv::Parameters
QueryParamParametersToSfvLoop(value, sfv_parameters, req_seen, name_seen) ==
    IF value = <<>> THEN Ok(sfv_parameters)
    ELSE
    LET param == Head(value)
        rest == Tail(value)
    IN CASE param.tag = "Req" ->
              IF req_seen THEN Err("ParsingError")
              ELSE QueryParamParametersToSfvLoop(rest,
                      ParamsInsert(sfv_parameters, "req", BareBoolean(TRUE)), TRUE, name_seen)
         [] param.tag = "Name" ->
              IF name_seen THEN Err("ParsingError")
              ELSE IF ~IsSfvString(param.s) THEN Err("ParsingError")
              ELSE QueryParamParametersToSfvLoop(rest,
                      ParamsInsert(sfv_parameters, "name", BareString(param.s)),
                      req_seen, TRUE)

\* TryFrom<QueryParamParametersSet> for sfv::Parameters
QueryParamParametersSetToSfv(value) ==
    QueryParamParametersToSfvLoop(value, <<>>, FALSE, FALSE)

\* the name each DerivedComponent variant is written with
DerivedNameOf(variant) ==
    CASE variant = "Authority" -> "@authority"
      [] variant = "Method" -> "@method"
      [] variant = "Path" -> "@path"
      [] variant = "TargetUri" -> "@target-uri"
      [] variant = "RequestTarget" -> "@request-target"
      [] variant = "Scheme" -> "@scheme"
      [] variant = "Status" -> "@status"
      [] variant = "Query" -> "@query"
      [] variant = "QueryParams" -> "@query-param"

\* template below as it runs when req is inserted whatever its value
TemplateWritingFalse(name, req) ==
    Ok(Item(BareString(name), ParamsInsert(<<>>, "req", BareBoolean(req))))

\* fn template(name, req) of TryFrom<DerivedComponent> for sfv::Item
template(name, req) ==
    Ok(Item(BareString(name),
            IF req THEN ParamsInsert(<<>>, "req", BareBoolean(TRUE)) ELSE <<>>))

\* TryFrom<DerivedComponent> for sfv::Item.  For QueryParams the first loop
\* over the parameters fails with ImpossibleSfvError on a Name that is no
\* sfv::String, and its result is dropped; parameters.try_into() decides.
DerivedComponentToItem(value) ==
    IF value.variant # "QueryParams"
    THEN template(DerivedNameOf(value.variant), value.req)
    ELSE IF \E i \in DOMAIN value.parameters :
                /\ value.parameters[i].tag = "Name"
                /\ ~IsSfvString(value.parameters[i].s)
         THEN Err("ImpossibleSfvError")
    ELSE ItemOfParameters("@query-param", QueryParamParametersSetToSfv(value.parameters))

\* the match of SignatureBase::into_ascii on the component
CoveredComponentToItem(component) ==
    IF component.kind = "HTTP" THEN HTTPFieldToItem(component)
    ELSE DerivedComponentToItem(component)

\* fetch_req below as it runs when a single parameter of another name is let pass
FetchReqAnyName(params) ==
    IF Len(params) = 0 THEN Ok(FALSE)
    ELSE IF Len(params) = 1 THEN
        IF params[1].key = "req" THEN
            IF as_boolean(params[1].val).some THEN Ok(as_boolean(params[1].val).v)
            ELSE Err("ParsingError")
        ELSE Ok(FALSE)
    ELSE Err("ParsingError")

\* fn fetch_req(params, component_name) of TryFrom<sfv::Item> for CoveredComponent
fetch_req(params) ==
    IF Len(params) = 0 THEN Ok(FALSE)
    ELSE IF Len(params) = 1 THEN
        IF params[1].key = "req" THEN
            IF as_boolean(params[1].val).some THEN Ok(as_boolean(params[1].val).v)
            ELSE Err("ParsingError")
        ELSE Err("ParsingError")
    ELSE Err("ParsingError")

\* the variant each derived component name (but "@query-param") parses to
VariantOfName(name) ==
    CASE name = "@authority" -> "Authority"
      [] name = "@method" -> "Method"
      [] name = "@path" -> "Path"
      [] name = "@target-uri" -> "TargetUri"
      [] name = "@scheme" -> "Scheme"
      [] name = "@status" -> "Status"
      [] name = "@query" -> "Query"
      [] name = "@request-target" -> "RequestTarget"

\* Ok(CoveredComponent::Derived(DerivedComponent::<variant> { req: fetch_req(..)? }))
DerivedOfReq(variant, req) ==
    IF req.ok THEN Ok(Derived(variant, req.val)) ELSE req

\* Ok(CoveredComponent::Derived(DerivedComponent::QueryParams { parameters: ..? }))
QueryParamsOfParameters(parameters) ==
    IF parameters.ok THEN Ok(QueryParams(parameters.val)) ELSE parameters

\* Ok(CoveredComponent::HTTP(HTTPField { name, parameters: ..? }))
HTTPOfParameters(name, parameters) ==
    IF parameters.ok THEN Ok(HTTP(name, parameters.val)) ELSE parameters

\* the match on the string of the bare item; an HTTP field name is lowercased
CoveredComponentOfString(inner_string, params) ==
    IF inner_string \in DerivedNames \ {"@query-param"}
    THEN DerivedOfReq(VariantOfName(inner_string), fetch_req(params))
    ELSE IF inner_string = "@query-param"
    THEN QueryParamsOfParameters(QueryParamParametersSetTryFrom(params))
    ELSE IF StartsWithAt(inner_string) THEN Err("ParsingError")
    ELSE HTTPOfParameters(ToAsciiLowercase(inner_string),
                          HTTPFieldParametersSetTryFrom(params))

\* TryFrom<sfv::Item> for CoveredComponent
CoveredComponentTryFrom(value) ==
    IF value.bare_item.type # "string" THEN Err("ParsingError")
    ELSE CoveredComponentOfString(value.bare_item.s, value.params)

(***************************************************************************)
(* lib.rs: signature parameters and the signature base.                    *)
(***************************************************************************)

\* val.as_string() of the parameter under key, None when the key is absent
StringParameter(value, key) ==
    IF ParamsContainsKey(value, key) THEN as_string(ParamsGet(value, key).v)
    ELSE None

\* val.as_integer() of the parameter under key, None when the key is absent
IntegerParameter(value, key) ==
    IF ParamsContainsKey(value, key) THEN as_integer(ParamsGet(value, key).v)
    ELSE None

\* the conversion below as it runs when the raw parameters are kept back to front
SignatureParamsReversed(value) ==
    [raw |-> [i \in DOMAIN value |-> value[Len(value) + 1 - i]],
     details |->
       [algorithm |-> IF StringParameter(value, "alg") = Some("ed25519")
                      THEN Some("Ed25519") ELSE None,
        created |-> IntegerParameter(value, "created"),
        expires |-> IntegerParameter(value, "expires"),
        keyid |-> StringParameter(value, "keyid"),
        nonce |-> StringParameter(value, "nonce"),
        tag |-> StringParameter(value, "tag")]]

\* the conversion below as it runs when a parameter is read whatever its type
SignatureParamsUntyped(value) ==
    [raw |-> value,
     details |->
       [algorithm |-> IF ParamsContainsKey(value, "alg")
                         /\ ParamsGet(value, "alg").v.s = "ed25519"
                      THEN Some("Ed25519") ELSE None,
        created |-> IF ParamsContainsKey(value, "created")
                    THEN Some(ParamsGet(value, "created").v.n) ELSE None,
        expires |-> IF ParamsContainsKey(value, "expires")
                    THEN Some(ParamsGet(value, "expires").v.n) ELSE None,
        keyid |-> IF ParamsContainsKey(value, "keyid")
                  THEN Some(ParamsGet(value, "keyid").v.s) ELSE None,
        nonce |-> IF ParamsContainsKey(value, "nonce")
                  THEN Some(ParamsGet(value, "nonce").v.s) ELSE None,
        tag |-> IF ParamsContainsKey(value, "tag")
                THEN Some(ParamsGet(value, "tag").v.s) ELSE None]]

\* impl From<sfv::Parameters> for SignatureParams: the keys of an IndexMap are
\* distinct, so each arm of the match runs at most once
SignatureParamsFrom(value) ==
    [raw |-> value,
     details |->
       [algorithm |-> IF StringParameter(value, "alg") = Some("ed25519")
                      THEN Some("Ed25519") ELSE None,
        created |-> IntegerParameter(value, "created"),
        expires |-> IntegerParameter(value, "expires"),
        keyid |-> StringParameter(value, "keyid"),
        nonce |-> StringParameter(value, "nonce"),
        tag |-> StringParameter(value, "tag")]]

\* IndexMap<CoveredComponent, String>: a sequence of [component, value] with
\* pairwise distinct components
ComponentKeys(map) == {map[i].component : i \in DOMAIN map}

\* IndexMap::insert: a present key keeps its place and takes the new value
ComponentsInsert(map, component, value) ==
    IF component \in ComponentKeys(map)
    THEN [i \in DOMAIN map |->
            IF map[i].component = component
            THEN [component |-> component, value |-> value] ELSE map[i]]
    ELSE Append(map, [component |-> component, value |-> value])

RECURSIVE IndexMapFromIterBackwards(_, _)
\* from_iter below as it runs when the pairs are inserted from the last to the first
IndexMapFromIterBackwards(pairs, acc) ==
    IF pairs = <<>> THEN acc
    ELSE ComponentsInsert(IndexMapFromIterBackwards(Tail(pairs), acc),
                          Head(pairs).component, Head(pairs).value)

RECURSIVE IndexMapFromIter(_, _)
\* IndexMap::from_iter: insert the pairs one after the other
IndexMapFromIter(pairs, acc) ==
    IF pairs = <<>> THEN acc
    ELSE IndexMapFromIter(Tail(pairs),
                          ComponentsInsert(acc, Head(pairs).component, Head(pairs).value))

\* str::is_ascii on a text
TextIsAscii(t) == \A i \in DOMAIN t : IsAscii(t[i])

RECURSIVE IntoAsciiLoop(_, _, _)
RECURSIVE IntoAsciiLine(_, _, _, _)

\* the for loop of SignatureBase::into_ascii: one line per component, and the
\* item of each component for the signature-params line
IntoAsciiLoop(components, output, signature_params_line_items) ==
    IF components = <<>>
    THEN Ok([output |-> output, items |-> signature_params_line_items])
    ELSE IntoAsciiLine(components, output, signature_params_line_items,
                       CoveredComponentToItem(Head(components).component))

\* the body of the loop with the item of the component: writeln!, push
IntoAsciiLine(components, output, signature_params_line_items, sfv_item) ==
    IF ~sfv_item.ok THEN sfv_item
    ELSE IntoAsciiLoop(Tail(components),
             output \o SerializeItem(sfv_item.val) \o <<": ">>
                    \o Head(components).value \o <<"\n">>,
             Append(signature_params_line_items, sfv_item.val))

\* the check below as it runs when is_ascii is not asked
IntoAsciiUnchecked(output, signature_params_line) ==
    Ok(<<output, signature_params_line>>)

\* the end of into_ascii: the last line is written, the output is checked
IntoAsciiChecked(output, signature_params_line) ==
    IF TextIsAscii(output) THEN Ok(<<output, signature_params_line>>)
    ELSE Err("NonAsciiContentFound")

\* the step below as it runs with writeln! in the place of write!
IntoAsciiLastLineFed(output, signature_params_line) ==
    IF ~signature_params_line.some THEN Err("SignatureParamsSerialization")
    ELSE IntoAsciiChecked(
             output \o <<"\"", "@signature-params", "\"", ": ">>
                    \o signature_params_line.v \o <<"\n">>,
             signature_params_line.v)

\* write!(output, "\"@signature-params\": {signature_params_line}")
IntoAsciiLastLine(output, signature_params_line) ==
    IF ~signature_params_line.some THEN Err("SignatureParamsSerialization")
    ELSE IntoAsciiChecked(
             output \o <<"\"", "@signature-params", "\"", ": ">>
                    \o signature_params_line.v,
             signature_params_line.v)

\* into_ascii after its loop
IntoAsciiAfterLoop(raw, loop) ==
    IF ~loop.ok THEN loop
    ELSE IntoAsciiLastLine(loop.val.output,
             SerializeList(<<EntryInnerList(InnerList(loop.val.items, raw))>>))

\* SignatureBase::into_ascii: Ok(<<base, signature-params line>>)
into_ascii(self) ==
    IntoAsciiAfterLoop(self.parameters.raw, IntoAsciiLoop(self.components, <<>>, <<>>))

RECURSIVE CollectComponents(_, _)
RECURSIVE CollectComponent(_, _, _)

\* items.iter().map(try_into).collect::<Result<Vec<_>, _>>(): the first error
CollectComponents(items, acc) ==
    IF items = <<>> THEN Ok(acc)
    ELSE CollectComponent(items, acc, CoveredComponentTryFrom(Head(items)))

CollectComponent(items, acc, c) ==
    IF c.ok THEN CollectComponents(Tail(items), Append(acc, c.val)) ELSE c

\* Ok(SignatureBaseBuilder { components: ..?, parameters: value.params.into() })
BuilderOfComponents(components, params) ==
    IF components.ok
    THEN Ok([components |-> components.val, parameters |-> SignatureParamsFrom(params)])
    ELSE components

\* impl TryFrom<sfv::InnerList> for SignatureBaseBuilder
SignatureBaseBuilderTryFrom(value) ==
    BuilderOfComponents(CollectComponents(value.items, <<>>), value.params)

\* the component a message files a header or derived value under: field names
\* are compared without regard to case
NormalizedComponent(c) ==
    IF c.kind = "HTTP" THEN [c EXCEPT !.name = ToAsciiLowercase(c.name)] ELSE c

\* the places of the message's components that name stands for
LookupHits(message, name) ==
    {i \in DOMAIN message.components :
        NormalizedComponent(message.components[i].component) = NormalizedComponent(name)}

\* SignedMessage::lookup_component of the messages of the model
lookup_component(message, name) ==
    IF LookupHits(message, name) = {} THEN None
    ELSE Some(message.components[
             CHOOSE i \in LookupHits(message, name) :
                 \A j \in LookupHits(message, name) : i <= j].value)

RECURSIVE LookupComponents(_, _, _)
RECURSIVE LookupComponentValue(_, _, _, _)

\* a collect that reports the last component without a value
LookupComponentValueLast(message, components, acc, serialized_value) ==
    IF serialized_value.some
    THEN LookupComponents(message, Tail(components),
             Append(acc, [component |-> Head(components),
                          value |-> serialized_value.v]))
    ELSE IF \E k \in 2..Len(components) : ~lookup_component(message, components[k]).some
    THEN LookupComponents(message, Tail(components), acc)
    ELSE [ok |-> FALSE, err |-> "LookupError", component |-> Head(components)]

\* the map/collect of into_signature_base: the first component without a value
LookupComponents(message, components, acc) ==
    IF components = <<>> THEN Ok(acc)
    ELSE LookupComponentValue(message, components, acc,
                              lookup_component(message, Head(components)))

LookupComponentValue(message, components, acc, serialized_value) ==
    IF serialized_value.some
    THEN LookupComponents(message, Tail(components),
             Append(acc, [component |-> Head(components),
                          value |-> serialized_value.v]))
    ELSE [ok |-> FALSE, err |-> "LookupError", component |-> Head(components)]

\* Ok(SignatureBase { components: IndexMap::from_iter(..?), parameters })
BaseOfPairs(pairs, parameters) ==
    IF pairs.ok
    THEN Ok([components |-> IndexMapFromIter(pairs.val, <<>>), parameters |-> parameters])
    ELSE pairs

\* SignatureBaseBuilder::into_signature_base
into_signature_base(self, message) ==
    BaseOfPairs(LookupComponents(message, self.components, <<>>), self.parameters)

(***************************************************************************)
(* Ed25519 (crate ed25519_dalek) as an ideal signature scheme.             *)
(***************************************************************************)

\* 32-byte signing keys and their public keys
SigningKeys == {"sk1", "sk2"}
PublicKeyOf(sk) == IF sk = "sk1" THEN "pk1" ELSE "pk2"

\* key blobs that are not 32 bytes long
ShortKeys == {"sk-31-bytes", "pk-31-bytes"}

\* byte sequences that are not 64 bytes long
ShortSignatures == {"sig-63-bytes"}

RECURSIVE Flatten(_)
\* the bytes of a text, symbol after symbol
Flatten(t) == IF t = <<>> THEN "" ELSE Head(t) \o "|" \o Flatten(Tail(t))

\* SigningKey::sign: the signature is a function of the key and the message
Ed25519Sign(sk, message) == "ed25519(" \o sk \o "," \o Flatten(message) \o ")"

\* VerifyingKey::verify: only the holder of the signing key makes it true
Ed25519Verify(pk, message, signature) ==
    \E sk \in SigningKeys : PublicKeyOf(sk) = pk /\ signature = Ed25519Sign(sk, message)

(***************************************************************************)
(* lib.rs: MessageSigner.  now is the reading of SystemTime::now() in      *)
(* seconds since the epoch (negative: before the epoch), expires the       *)
(* Duration in seconds.                                                    *)
(***************************************************************************)

\* i64::MAX, scaled to the clock readings of the model
I64Max == 8

\* insertions that write the clock reading as expires, without the Duration
SignerParametersWithoutDuration(self, created_as_i64, expires_as_i64) ==
    ParamsInsert(ParamsInsert(ParamsInsert(ParamsInsert(ParamsInsert(ParamsInsert(<<>>,
        "alg", BareString("ed25519")),
        "keyid", BareString(self.keyid)),
        "nonce", BareString(self.nonce)),
        "tag", BareString(self.tag)),
        "created", BareInteger(created_as_i64)),
        "expires", BareInteger(created_as_i64))

\* insertions that begin with the two integers
SignerParametersTimesFirst(self, created_as_i64, expires_as_i64) ==
    ParamsInsert(ParamsInsert(ParamsInsert(ParamsInsert(ParamsInsert(ParamsInsert(<<>>,
        "created", BareInteger(created_as_i64)),
        "expires", BareInteger(expires_as_i64)),
        "alg", BareString("ed25519")),
        "keyid", BareString(self.keyid)),
        "nonce", BareString(self.nonce)),
        "tag", BareString(self.tag))

\* the six insertions into sfv_parameters
SignerParameters(self, created_as_i64, expires_as_i64) ==
    ParamsInsert(ParamsInsert(ParamsInsert(ParamsInsert(ParamsInsert(ParamsInsert(<<>>,
        "alg", BareString("ed25519")),
        "keyid", BareString(self.keyid)),
        "nonce", BareString(self.nonce)),
        "tag", BareString(self.tag)),
        "created", BareInteger(created_as_i64)),
        "expires", BareInteger(expires_as_i64))

\* generate_signature_headers_content up to the construction of the
\* SignatureBase: the strings, the clock and the integers are checked in the
\* order of the code; sfv::Integer::constant panics outside its range
SignerBase(self, components_to_cover, now, expires) ==
    IF ~IsSfvString(self.keyid) THEN Err("ParsingError")
    ELSE IF ~IsSfvString(self.nonce) THEN Err("ParsingError")
    ELSE IF ~IsSfvString(self.tag) THEN Err("ParsingError")
    ELSE IF now < 0 THEN Err("TimeError")
    ELSE IF now > I64Max THEN Err("ParsingError")
    ELSE IF now + expires > I64Max THEN Err("ParsingError")
    ELSE IF now > SfvIntegerMax \/ now + expires > SfvIntegerMax THEN Err("panic")
    ELSE Ok([components |-> components_to_cover,
             parameters |->
                 SignatureParamsFrom(SignerParameters(self, now, now + expires))])

\* the end of generate_signature_headers_content: the key is read after the
\* base is assembled; Ok(<<signature_input, signature_header>>) is registered
SignBase(ascii, signing_key) ==
    IF ~ascii.ok THEN ascii
    ELSE IF signing_key \notin SigningKeys THEN Err("InvalidKeyLength")
    ELSE Ok(<<ascii.val[2],
              SerializeItem(Item(BareByteSequence(
                  Ed25519Sign(signing_key, ascii.val[1])), <<>>))>>)

\* .into_ascii()? on the SignatureBase, when its construction came that far
SignerAscii(base) == IF base.ok THEN into_ascii(base.val) ELSE base

\* MessageSigner::generate_signature_headers_content up to the call of
\* register_header_contents
SignatureHeadersContent(self, components_to_cover, now, expires, signing_key) ==
    SignBase(SignerAscii(SignerBase(self, components_to_cover, now, expires)),
             signing_key)

(***************************************************************************)
(* lib.rs: MessageVerifier.                                                *)
(***************************************************************************)

\* the filter_map of MessageVerifier::parse: the inner lists of the dictionary
InnerListsOf(dict) ==
    SelectSeq(dict, LAMBDA m : m.entry.kind = "innerlist")

\* the last of the members at the places hits
LastOf(members, hits) ==
    IF hits = {} THEN None
    ELSE Some(members[CHOOSE i \in hits : \A j \in hits : i >= j])

\* the first of the members at the places hits
FirstOf(members, hits) ==
    IF hits = {} THEN None
    ELSE Some(members[CHOOSE i \in hits : \A j \in hits : i <= j])

\* the selector |(_, _)| true
PickAny == [selector |-> "any", key_directory |-> None]

\* the selector of WebBotAuthVerifier::parse, a closure over key_directory
PickWebBotAuth(key_directory) ==
    [selector |-> "web-bot-auth", key_directory |-> key_directory]

\* sfv::Item::new(sfv::StringRef::constant(name)): the string without parameters
ItemNew(name) == Item(BareString(name), <<>>)

\* a closure that takes "signature-agent" without asking for a key directory
WebBotAuthPicksAnyAgent(key_directory, innerlist) ==
    /\ ParamsContainsKey(innerlist.params, "keyid")
    /\ ParamsContainsKey(innerlist.params, "tag")
    /\ ParamsContainsKey(innerlist.params, "expires")
    /\ ParamsContainsKey(innerlist.params, "created")
    /\ StringParameter(innerlist.params, "tag") = Some("web-bot-auth")
    /\ \E i \in DOMAIN innerlist.items :
          \/ innerlist.items[i] = ItemNew("@authority")
          \/ innerlist.items[i] = ItemNew("signature-agent")

\* the closure WebBotAuthVerifier::parse hands to MessageVerifier::parse
WebBotAuthPicks(key_directory, innerlist) ==
    /\ ParamsContainsKey(innerlist.params, "keyid")
    /\ ParamsContainsKey(innerlist.params, "tag")
    /\ ParamsContainsKey(innerlist.params, "expires")
    /\ ParamsContainsKey(innerlist.params, "created")
    /\ StringParameter(innerlist.params, "tag") = Some("web-bot-auth")
    /\ \E i \in DOMAIN innerlist.items :
          \/ innerlist.items[i] = ItemNew("@authority")
          \/ /\ key_directory.some
             /\ innerlist.items[i] = ItemNew("signature-agent")

\* pick(&(label, innerlist)) for the selector pick
Picks(pick, member) ==
    CASE pick.selector = "any" -> TRUE
      [] pick.selector = "web-bot-auth" ->
             WebBotAuthPicks(pick.key_directory, member.entry)

\* Iterator::find: the first member pick accepts
FindFirst(members, pick) ==
    FirstOf(members, {i \in DOMAIN members : Picks(pick, members[i])})

\* an end of parse that asks for a recognised alg parameter also when the
\* caller names the algorithm
ParseAlgorithmStrict(alg, signature, base) ==
    IF ~base.ok THEN base
    ELSE IF ~base.val.parameters.details.algorithm.some THEN Err("UnsupportedAlgorithm")
    ELSE IF alg.some
         THEN Ok([signature |-> signature, base |-> base.val, algorithm |-> alg.v])
    ELSE Ok([signature |-> signature, base |-> base.val,
             algorithm |-> base.val.parameters.details.algorithm.v])

\* the end of MessageVerifier::parse: the algorithm is chosen
ParseAlgorithm(alg, signature, base) ==
    IF ~base.ok THEN base
    ELSE IF alg.some
         THEN Ok([signature |-> signature, base |-> base.val, algorithm |-> alg.v])
    ELSE IF base.val.parameters.details.algorithm.some
         THEN Ok([signature |-> signature, base |-> base.val,
                  algorithm |-> base.val.parameters.details.algorithm.v])
    ELSE Err("UnsupportedAlgorithm")

\* builder.into_signature_base(message)?
ParseBase(message, alg, signature, builder) ==
    IF ~builder.ok THEN builder
    ELSE ParseAlgorithm(alg, signature, into_signature_base(builder.val, message))

\* the match on signature_header.shift_remove(&label)
ParseSignature(message, alg, innerlist, entry) ==
    IF ~entry.some THEN Err("ParsingError")
    ELSE IF entry.v.kind # "item" THEN Err("ParsingError")
    ELSE IF entry.v.bare_item.type # "bytes" THEN Err("ParsingError")
    ELSE ParseBase(message, alg, entry.v.bare_item.s,
                   SignatureBaseBuilderTryFrom(innerlist))

\* the (label, innerlist) that find(pick) returned
ParseLabel(message, alg, found, signature_header) ==
    IF ~found.some THEN Err("ParsingError")
    ELSE ParseSignature(message, alg, found.v.entry,
                        DictGet(signature_header, found.v.key))

\* the two dictionaries as sfv::Parser::parse_dictionary returned them
ParseDictionaries(message, alg, signature_input, signature_header, pick) ==
    IF ~signature_input.ok THEN Err("ParsingError")
    ELSE IF ~signature_header.ok THEN Err("ParsingError")
    ELSE ParseLabel(message, alg,
                    FindFirst(InnerListsOf(signature_input.val), pick),
                    signature_header.val)

\* MessageVerifier::parse; alg is an Option<Algorithm>, pick the selector
MessageVerifierParse(message, alg, pick) ==
    IF ~message.signature_header.some THEN Err("ParsingError")
    ELSE IF ~message.signature_input.some THEN Err("ParsingError")
    ELSE ParseDictionaries(message, alg,
                           ParseDictionary(message.signature_input.v),
                           ParseDictionary(message.signature_header.v), pick)

\* HashMap::get on the KeyRing, a set of [id, key]
KeyRingGet(keyring, id) ==
    IF \E e \in keyring : e.id = id
    THEN Some((CHOOSE e \in keyring : e.id = id).key)
    ELSE None

\* a match that falls back to the keyid of the message when the keyring does
\* not hold the identifier the caller supplied
KeyingMaterialFallback(self, keyring, key_id) ==
    IF key_id.some /\ KeyRingGet(keyring, key_id.v).some
    THEN KeyRingGet(keyring, key_id.v)
    ELSE IF self.base.parameters.details.keyid.some
         THEN KeyRingGet(keyring, self.base.parameters.details.keyid.v)
    ELSE None

\* the match on key_id of MessageVerifier::verify
KeyingMaterial(self, keyring, key_id) ==
    IF key_id.some THEN KeyRingGet(keyring, key_id.v)
    ELSE IF self.base.parameters.details.keyid.some
         THEN KeyRingGet(keyring, self.base.parameters.details.keyid.v)
    ELSE None

\* a match that refuses a signature whose expires is not in the future of
\* the epoch
VerifyBaseUnlessExpired(self, keying_material, ascii) ==
    IF ~ascii.ok THEN ascii
    ELSE IF keying_material \in ShortKeys THEN Err("InvalidKeyLength")
    ELSE IF self.signature \in ShortSignatures THEN Err("InvalidSignatureLength")
    ELSE IF /\ self.base.parameters.details.expires.some
            /\ self.base.parameters.details.expires.v <= 0
         THEN Err("SignatureIsExpired")
    ELSE IF Ed25519Verify(keying_material, ascii.val[1], self.signature)
         THEN Ok("verified")
    ELSE Err("FailedToVerify")

\* the match on self.algorithm of MessageVerifier::verify
VerifyBase(self, keying_material, ascii) ==
    IF ~ascii.ok THEN ascii
    ELSE IF keying_material \in ShortKeys THEN Err("InvalidKeyLength")
    ELSE IF self.signature \in ShortSignatures THEN Err("InvalidSignatureLength")
    ELSE IF Ed25519Verify(keying_material, ascii.val[1], self.signature)
         THEN Ok("verified")
    ELSE Err("FailedToVerify")

\* MessageVerifier::verify with the key the keyring returned
VerifyWithKey(self, keying_material) ==
    IF ~keying_material.some THEN Err("NoSuchKey")
    ELSE VerifyBase(self, keying_material.v, into_ascii(self.base))

\* a verify that assembles the base before it looks for the key
MessageVerifierVerifyBaseFirst(self, keyring, key_id) ==
    IF ~into_ascii(self.base).ok THEN into_ascii(self.base)
    ELSE VerifyWithKey(self, KeyingMaterial(self, keyring, key_id))

\* MessageVerifier::verify; key_id is an Option<Thumbprint>
MessageVerifierVerify(self, keyring, key_id) ==
    VerifyWithKey(self, KeyingMaterial(self, keyring, key_id))


(***************************************************************************)
(* is_expired and the WebBotAuthVerifier.                                  *)
(***************************************************************************)

\* the closure of SignatureBase::is_expired on the expires that is present;
\* now is the clock reading, negative when the clock stands before the epoch
ExpiredAt(expires, now) ==
    IF expires <= 0 THEN TRUE
    ELSE IF now < 0 THEN TRUE
    ELSE IF now > I64Max THEN TRUE
    ELSE now >= expires

\* SignatureBase::is_expired
is_expired(self, now) ==
    IF self.parameters.details.expires.some
    THEN Some(ExpiredAt(self.parameters.details.expires.v, now))
    ELSE None

\* MessageVerifier::is_expired
MessageVerifierIsExpired(self, now) == is_expired(self.base, now)

\* str::starts_with("https") and str::starts_with("data") on the strings of
\* the model
StartsWithHttps(s) == s \in {"https://directory.example"}
StartsWithData(s) == s \in {"data:application/jwk"}

\* a key directory taken from every string, whatever it starts with
KeyDirectoryOfAnyString(signature_agent) ==
    IF ~signature_agent.some THEN None
    ELSE as_string(signature_agent.v.bare_item)

\* signature_agent.and_then(..): the string of the item when it is a link
KeyDirectoryOf(signature_agent) ==
    IF ~signature_agent.some THEN None
    ELSE IF ~as_string(signature_agent.v.bare_item).some THEN None
    ELSE IF \/ StartsWithHttps(as_string(signature_agent.v.bare_item).v)
            \/ StartsWithData(as_string(signature_agent.v.bare_item).v)
         THEN as_string(signature_agent.v.bare_item)
    ELSE None

\* Ok(WebBotAuthVerifier { message_verifier: ..?, key_directory })
WebBotAuthVerifierOf(message_verifier, key_directory) ==
    IF message_verifier.ok
    THEN Ok([message_verifier |-> message_verifier.val, key_directory |-> key_directory])
    ELSE message_verifier

\* WebBotAuthVerifier::parse once Signature-Agent is read
WebBotAuthParseWith(message, algorithm, key_directory) ==
    WebBotAuthVerifierOf(
        MessageVerifierParse(message, algorithm, PickWebBotAuth(key_directory)),
        key_directory)

\* the match on fetch_signature_agent(): the item parsed from the header
SignatureAgentItem(agent) ==
    IF agent.ok THEN Ok(Some(agent.val)) ELSE Err("ParsingError")

\* WebBotAuthVerifier::parse with the Signature-Agent item, if it parsed
WebBotAuthParseAgent(message, algorithm, signature_agent) ==
    IF ~signature_agent.ok THEN signature_agent
    ELSE WebBotAuthParseWith(message, algorithm, KeyDirectoryOf(signature_agent.val))

\* WebBotAuthVerifier::parse
WebBotAuthVerifierParse(message, algorithm) ==
    WebBotAuthParseAgent(message, algorithm,
        IF message.signature_agent.some
        THEN SignatureAgentItem(ParseItem(message.signature_agent.v))
        ELSE Ok(None))

\* a verify that refuses whenever the lookup is enforced, directory or not
WebBotAuthVerifierVerifyEnforced(self, keyring, key_id, enforce_key_directory_lookup) ==
    IF ~enforce_key_directory_lookup
    THEN MessageVerifierVerify(self.message_verifier, keyring, key_id)
    ELSE Err("NotImplemented")

\* WebBotAuthVerifier::verify
WebBotAuthVerifierVerify(self, keyring, key_id, enforce_key_directory_lookup) ==
    IF \/ (~enforce_key_directory_lookup /\ self.key_directory.some)
       \/ ~self.key_directory.some
    THEN MessageVerifierVerify(self.message_verifier, keyring, key_id)
    ELSE Err("NotImplemented")

\* a possibly_insecure that takes a signature without expiry for insecure
PossiblyInsecureUnlessFresh(self, now) ==
    IF MessageVerifierIsExpired(self.message_verifier, now).some
    THEN MessageVerifierIsExpired(self.message_verifier, now).v
    ELSE TRUE

\* WebBotAuthVerifier::possibly_insecure
possibly_insecure(self, now) ==
    IF MessageVerifierIsExpired(self.message_verifier, now).some
    THEN MessageVerifierIsExpired(self.message_verifier, now).v
    ELSE FALSE
(***************************************************************************)
(* The state.  A message is signed, parsed and verified; a message that    *)
(* arrives with its two headers is parsed and verified; an item or a       *)
(* component is converted forth and back.                                  *)
(***************************************************************************)

VARIABLES
    message,    \* the UnsignedMessage / SignedMessage the caller holds
    signer,     \* the MessageSigner
    now,        \* SystemTime::now() in seconds since the epoch
    signed,     \* history: the key, the base, the clock reading and the expires
                \* Duration of the signing that succeeded
    assembled,  \* history: the last call of into_ascii and what it returned
    verifier,   \* Option<MessageVerifier>
    web_bot_auth_verifier,  \* Option<WebBotAuthVerifier>
    expired,    \* what is_expired returned when it was last asked, and when
    insecure,   \* what possibly_insecure returned when it was last asked, and when
    result,     \* the operation that ran last and what it returned
    pc,         \* how far the message has come
    conv        \* a conversion between sfv::Item and CoveredComponent

vars == <<message, signer, now, signed, assembled, verifier, web_bot_auth_verifier,
          expired, insecure, result, pc, conv>>

\* Most components a message covers, most items of a received inner list.
MaxComponents == 2

\* Largest ordinary clock reading and largest expires Duration drawn.
MaxClock == 1
MaxExpires == 1

\* Most parameters of an item or a component that is converted.
MaxParams == 3

\* the sequences over S of length at most n
SeqsUpTo(S, n) == UNION {[1..k -> S] : k \in 0..n}

\* the (component, value) pairs fetch_components_to_cover may return
CoverPairs ==
    {[component |-> Derived("Authority", FALSE), value |-> <<"example.com">>],
     [component |-> Derived("Method", TRUE), value |-> <<"POST">>],
     [component |-> HTTP("content-length", <<>>), value |-> <<"18">>],
     [component |-> HTTP("Content-Length", <<Req>>), value |-> <<"18">>],
     [component |-> HTTP("content-type", <<Tr, Tr>>), value |-> <<"text/html">>],
     [component |-> HTTP("caf<U+00E9>", <<>>), value |-> <<"1">>],
     [component |-> Derived("Path", FALSE), value |-> <<"/", "caf<U+00E9>">>]}

\* an IndexMap holds a component once
CoverMaps ==
    {l \in SeqsUpTo(CoverPairs, MaxComponents) :
        \A i, j \in DOMAIN l : i # j => l[i].component # l[j].component}

\* the MessageSigner configurations drawn
Signers ==
    {[keyid |-> "k1", nonce |-> "n1", tag |-> "web-bot-auth"],
     [keyid |-> "line<LF>feed", nonce |-> "n1", tag |-> "web-bot-auth"],
     [keyid |-> "k1", nonce |-> "line<LF>feed", tag |-> "web-bot-auth"],
     [keyid |-> "k1", nonce |-> "n1", tag |-> "caf<U+00E9>"]}

\* the clock readings drawn: before the epoch, ordinary, beyond sfv::Integer,
\* beyond i64
ClockReadings == ((0 - 1)..MaxClock) \cup {SfvIntegerMax + 1, I64Max + 1}

\* the last second the clock of the model reaches after a signing
LastSecond == MaxClock + MaxExpires + 1

\* the KeyRing the verifying caller holds
KeyRing ==
    {[id |-> "k1", key |-> "pk1"], [id |-> "k-short", key |-> "pk-31-bytes"]}

\* what a message that arrives answers to lookup_component
ReceivedComponents ==
    <<[component |-> Derived("Authority", FALSE), value |-> <<"example.com">>],
      [component |-> Derived("Method", TRUE), value |-> <<"POST">>],
      [component |-> HTTP("content-length", <<>>), value |-> <<"18">>],
      [component |-> HTTP("content-length", <<Sf>>), value |-> <<"18">>],
      [component |-> Derived("Path", FALSE), value |-> <<"/", "caf<U+00E9>">>]>>

\* the items an inner list of a received Signature-Input is made of
ReceivedItems ==
    {Item(BareString("@authority"), <<>>),
     Item(BareString("@authority"), <<[key |-> "req", val |-> BareBoolean(FALSE)]>>),
     Item(BareString("@method"), <<[key |-> "req", val |-> BareBoolean(TRUE)]>>),
     Item(BareString("content-length"), <<>>),
     Item(BareString("Content-Length"), <<>>),
     Item(BareString("content-length"), <<[key |-> "sf", val |-> BareBoolean(TRUE)]>>),
     Item(BareString("@path"), <<>>),
     Item(BareString("x-missing"), <<>>),
     Item(BareToken("tok"), <<>>)}

\* the parameters of a received inner list
ReceivedParameters ==
    {<<>>,
     <<[key |-> "alg", val |-> BareString("ed25519")],
       [key |-> "keyid", val |-> BareString("k1")]>>,
     <<[key |-> "keyid", val |-> BareString("k1")],
       [key |-> "alg", val |-> BareString("ed25519")]>>,
     <<[key |-> "created", val |-> BareInteger(1)],
       [key |-> "keyid", val |-> BareString("k1")],
       [key |-> "tag", val |-> BareString("web-bot-auth")]>>}

\* the Signature-Input values received, in canonical serialization
ReceivedSignatureInputs ==
    {SerializeDictionary(
        <<[key |-> "sig1", entry |-> EntryInnerList(InnerList(items, params))]>>) :
        items \in SeqsUpTo(ReceivedItems, MaxComponents), params \in ReceivedParameters}

\* the Signature values received
ReceivedSignatures ==
    {<<"sig1", "=", ":", "forged", ":">>,
     <<"sig1", "=", ":", "sig-63-bytes", ":">>,
     <<"sig2", "=", ":", "forged", ":">>}

\* a parameter of an inner list, and a parameter list with one parameter taken
\* out or given another value
Parameter(key, val) == [key |-> key, val |-> val]
Without(params, key) == SelectSeq(params, LAMBDA p : p.key # key)
With(params, key, val) ==
    [i \in DOMAIN params |-> IF params[i].key = key THEN Parameter(key, val) ELSE params[i]]

\* the parameters a web-bot-auth signer writes
FullParameters ==
    <<Parameter("created", BareInteger(0)), Parameter("keyid", BareString("k1")),
      Parameter("alg", BareString("ed25519")), Parameter("expires", BareInteger(1)),
      Parameter("tag", BareString("web-bot-auth"))>>

\* parameter lists that differ from it in what the selection of a member reads
SelectionParameters ==
    {FullParameters}
    \cup {Without(FullParameters, key) : key \in {"keyid", "tag", "expires", "created"}}
    \cup {With(FullParameters, "tag", BareString("not-web-bot-auth")),
          With(FullParameters, "tag", BareToken("tok"))}

\* parameter lists that differ from it in what is read after the selection
DetailParameters ==
    {Without(FullParameters, "alg"),
     With(FullParameters, "alg", BareString("rsa-pss-sha512")),
     With(FullParameters, "alg", BareString("ED25519")),
     With(FullParameters, "alg", BareToken("ed25519")),
     With(FullParameters, "keyid", BareInteger(1)),
     With(FullParameters, "keyid", BareString("k-absent")),
     With(FullParameters, "expires", BareInteger(0)),
     With(FullParameters, "expires", BareInteger(-1)),
     With(FullParameters, "expires", BareInteger(MaxExpires + 1)),
     With(FullParameters, "expires", BareString("1")),
     With(FullParameters, "created", BareString("0")),
     Append(FullParameters, Parameter("nonce", BareString("n1"))),
     Append(FullParameters, Parameter("nonce", BareInteger(1))),
     Append(FullParameters, Parameter("req", BareBoolean(TRUE)))}

\* covered components that differ in what the selection of a member reads
SelectionItems ==
    {<<ItemNew("@authority")>>,
     <<Item(BareString("@authority"), <<Parameter("req", BareBoolean(TRUE))>>)>>,
     <<ItemNew("signature-agent")>>,
     <<ItemNew("content-length")>>,
     <<ItemNew("content-length"), ItemNew("@authority")>>}

\* covered components of which one cannot be parsed or looked up
LookupItems ==
    {<<ItemNew("@method")>>,
     <<ItemNew("x-missing"), ItemNew("@method")>>,
     <<ItemNew("@authority"), ItemNew("x-missing")>>,
     <<ItemNew("@authority"), Item(BareToken("tok"), <<>>)>>,
     <<>>}

\* the Signature-Agent values received
SignatureAgents ==
    {None,
     Some(<<"\"", "https://directory.example", "\"">>),
     Some(<<"\"", "data:application/jwk", "\"">>),
     Some(<<"\"", "http://directory.example", "\"">>),
     Some(<<"tok">>),
     Some(<<"1">>),
     Some(<<"\"", "https://directory.example">>)}

\* what a message that arrives with this Signature-Agent answers to
\* lookup_component
ArrivedComponents(signature_agent) ==
    IF signature_agent.some
    THEN ReceivedComponents
         \o <<[component |-> HTTP("signature-agent", <<>>), value |-> signature_agent.v]>>
    ELSE ReceivedComponents

ArrivedMessage(dict, signature_header, signature_agent) ==
    [components |-> ArrivedComponents(signature_agent),
     signature_input |-> Some(SerializeDictionary(dict)),
     signature_header |-> Some(signature_header),
     signature_agent |-> signature_agent,
     registered |-> 0]

Labelled(label, items, params) ==
    [key |-> label, entry |-> EntryInnerList(InnerList(items, params))]

\* messages with one signature
SingleMessages ==
    {ArrivedMessage(<<Labelled("sig1", items, params)>>,
                    <<"sig1", "=", ":", "forged", ":">>, signature_agent) :
        items \in SelectionItems, params \in SelectionParameters,
        signature_agent \in SignatureAgents}
    \cup {ArrivedMessage(<<Labelled("sig1", items, FullParameters)>>,
                         <<"sig1", "=", ":", "forged", ":">>, None) :
             items \in LookupItems}

\* messages whose expiry is asked
ExpiryMessages ==
    {ArrivedMessage(<<Labelled("sig1", <<ItemNew("@authority")>>, params)>>,
                    <<"sig1", "=", ":", "forged", ":">>, signature_agent) :
        params \in DetailParameters \cup {FullParameters, Without(FullParameters, "expires")},
        signature_agent \in {None, Some(<<"\"", "https://directory.example", "\"">>)}}

\* Signature-Input values of more than one member
SeveralInputs ==
    {<<[key |-> "sig1", entry |-> EntryItem(Item(BareToken("tok"), <<>>))],
       Labelled("sig2", <<ItemNew("@authority")>>, FullParameters)>>,
     <<Labelled("sig1", <<ItemNew("@authority")>>, FullParameters),
       Labelled("sig2", <<ItemNew("content-length")>>, FullParameters)>>,
     <<Labelled("sig1", <<ItemNew("content-length")>>, FullParameters),
       Labelled("sig2", <<ItemNew("@authority")>>, FullParameters)>>,
     <<Labelled("sig1", <<ItemNew("@authority"), Item(BareToken("tok"), <<>>)>>,
                FullParameters),
       Labelled("sig2", <<ItemNew("@authority")>>, FullParameters)>>,
     <<Labelled("sig1", <<ItemNew("@authority"), ItemNew("x-missing")>>, FullParameters),
       Labelled("sig2", <<ItemNew("@authority")>>, FullParameters)>>,
     <<Labelled("sig1", <<ItemNew("@authority")>>,
                With(FullParameters, "tag", BareString("not-web-bot-auth"))),
       Labelled("sig2", <<ItemNew("@authority")>>, FullParameters)>>,
     <<[key |-> "sig1", entry |-> EntryItem(Item(BareString("str"), <<>>))]>>}

\* Signature values of more than one member
SeveralSignatures ==
    {SerializeDictionary(d) : d \in
       {<<[key |-> "sig1", entry |-> EntryItem(Item(BareByteSequence("forged"), <<>>))],
          [key |-> "sig2", entry |-> EntryItem(Item(BareByteSequence("forged-2"), <<>>))]>>,
        <<[key |-> "sig2", entry |-> EntryItem(Item(BareByteSequence("forged-2"), <<>>))]>>,
        <<[key |-> "sig1", entry |-> EntryInnerList(InnerList(<<>>, <<>>))],
          [key |-> "sig2", entry |-> EntryItem(Item(BareByteSequence("forged-2"), <<>>))]>>,
        <<[key |-> "sig1", entry |-> EntryItem(Item(BareString("str"), <<>>))],
          [key |-> "sig2", entry |-> EntryItem(Item(BareByteSequence("forged-2"), <<>>))]>>}}

SeveralMessages ==
    {ArrivedMessage(dict, signature_header, None) :
        dict \in SeveralInputs, signature_header \in SeveralSignatures}

ArrivedMessages == SingleMessages \cup ExpiryMessages \cup SeveralMessages

\* the key identifiers the verifying caller may hand over
KeyIds == {None, Some("k1"), Some("k-short"), Some("k-absent")}

\* the operation that ran last, the arguments of the call and what it returned
\* carried is the component a LookupError holds
NoResult == [op |-> "none", arg |-> None, ok |-> TRUE, err |-> "", carried |-> None]
ResultOf(op, arg, r) ==
    [op |-> op, arg |-> arg, ok |-> r.ok, err |-> IF r.ok THEN "" ELSE r.err,
     carried |-> IF r.ok THEN None
                 ELSE IF r.err = "LookupError" THEN Some(r.component) ELSE None]

\* is_expired was not asked yet
NotAsked == [asked |-> FALSE]

NoConv ==
    [origin |-> "none", stage |-> "none", text |-> <<>>, item |-> None,
     component |-> None, item_back |-> None, text_back |-> None,
     component_back |-> None]

\* a message before signing
InitUnsigned ==
    /\ message \in {[components |-> c, signature_input |-> None,
                     signature_header |-> None, signature_agent |-> None,
                     registered |-> 0] : c \in CoverMaps}
    /\ signer \in Signers
    /\ now \in ClockReadings
    /\ pc = "unsigned"

\* a message that arrives with Signature-Input and Signature
InitReceived ==
    /\ message \in {[components |-> ReceivedComponents, signature_input |-> Some(i),
                     signature_header |-> Some(s), signature_agent |-> None,
                     registered |-> 0] :
                        i \in ReceivedSignatureInputs, s \in ReceivedSignatures}
    /\ signer = [keyid |-> "k1", nonce |-> "n1", tag |-> "web-bot-auth"]
    /\ now = 0
    /\ pc = "signed"

\* a message that arrives with Signature-Input, Signature and, it may be,
\* Signature-Agent; the clock is drawn where the message is one of those
\* whose expiry is asked
InitArrived ==
    /\ message \in ArrivedMessages
    /\ signer = [keyid |-> "k1", nonce |-> "n1", tag |-> "web-bot-auth"]
    /\ now \in (IF message \in ExpiryMessages THEN ClockReadings ELSE {0})
    /\ pc = "signed"

Init ==
    /\ InitUnsigned \/ InitReceived \/ InitArrived
    /\ signed = None
    /\ assembled = None
    /\ verifier = None
    /\ web_bot_auth_verifier = None
    /\ expired = NotAsked
    /\ insecure = NotAsked
    /\ result = NoResult
    /\ conv = NoConv

\* UnsignedMessage::register_header_contents as the tests implement it: both
\* values go under the label sig1
register_header_contents(msg, signature_input, signature_header) ==
    [msg EXCEPT !.signature_input = Some(<<"sig1", "=">> \o signature_input),
                !.signature_header = Some(<<"sig1", "=">> \o signature_header),
                !.registered = @ + 1]

\* the call of into_ascii on base by the signer or the verifier, if it is made
AssembledBy(by, base) ==
    IF base.ok
    THEN Some([by |-> by, base |-> base.val, out |-> into_ascii(base.val)])
    ELSE None

\* the return below as it runs when the headers are registered before the
\* signing key is read
SignReturnEager(expires, signing_key, r) ==
    /\ result' = ResultOf("sign", Some([expires |-> expires, key |-> signing_key]), r)
    /\ IF r.ok
       THEN /\ message' = register_header_contents(message, r.val[1], r.val[2])
            /\ signed' = Some([key |-> signing_key, base |-> assembled'.v.out.val[1],
                                at |-> now, expires |-> expires])
            /\ pc' = "signed"
       ELSE IF r.err = "InvalidKeyLength"
       THEN /\ message' = register_header_contents(message, assembled'.v.out.val[2], <<>>)
            /\ UNCHANGED <<signed, pc>>
       ELSE UNCHANGED <<message, signed, pc>>

\* message.register_header_contents(signature_params_content, signature); Ok(())
\* after every ? of generate_signature_headers_content has passed
SignReturn(expires, signing_key, r) ==
    /\ result' = ResultOf("sign", Some([expires |-> expires, key |-> signing_key]), r)
    /\ IF r.ok
       THEN /\ message' = register_header_contents(message, r.val[1], r.val[2])
            /\ signed' = Some([key |-> signing_key, base |-> assembled'.v.out.val[1],
                                at |-> now, expires |-> expires])
            /\ pc' = "signed"
       ELSE UNCHANGED <<message, signed, pc>>

\* signer.generate_signature_headers_content(&mut message, expires, signing_key)
Sign(expires, signing_key) ==
    /\ pc = "unsigned"
    /\ assembled' = AssembledBy("sign",
                        SignerBase(signer, message.components, now, expires))
    /\ SignReturn(expires, signing_key,
                  SignatureHeadersContent(signer, message.components, now,
                                          expires, signing_key))
    /\ UNCHANGED <<signer, now, verifier, web_bot_auth_verifier, expired, insecure, conv>>

\* what MessageVerifier::parse returned
ParseReturn(alg, r) ==
    /\ result' = ResultOf("parse", alg, r)
    /\ verifier' = IF r.ok THEN Some(r.val) ELSE None
    /\ pc' = IF r.ok THEN "parsed" ELSE "rejected"

\* MessageVerifier::parse(&message, alg, |(_, _)| true)
Parse(alg) ==
    /\ pc = "signed"
    /\ ParseReturn(alg, MessageVerifierParse(message, alg, PickAny))
    /\ UNCHANGED <<message, signer, now, signed, assembled, web_bot_auth_verifier,
                   expired, insecure, conv>>

\* verifier.verify(&keyring, key_id)
Verify(key_id) ==
    /\ pc = "parsed"
    /\ result' = ResultOf("verify", key_id,
                         MessageVerifierVerify(verifier.v, KeyRing, key_id))
    /\ assembled' = IF KeyingMaterial(verifier.v, KeyRing, key_id).some
                    THEN AssembledBy("verify", Ok(verifier.v.base))
                    ELSE None
    /\ pc' = "verified"
    /\ UNCHANGED <<message, signer, now, signed, verifier, web_bot_auth_verifier,
                   expired, insecure, conv>>

\* what WebBotAuthVerifier::parse returned
WebBotAuthParseReturn(algorithm, r) ==
    /\ result' = ResultOf("web_bot_auth_parse", algorithm, r)
    /\ web_bot_auth_verifier' = IF r.ok THEN Some(r.val) ELSE None
    /\ pc' = IF r.ok THEN "parsed_as_web_bot_auth" ELSE "rejected"

\* WebBotAuthVerifier::parse(&message, algorithm)
WebBotAuthParse(algorithm) ==
    /\ pc = "signed"
    /\ WebBotAuthParseReturn(algorithm, WebBotAuthVerifierParse(message, algorithm))
    /\ UNCHANGED <<message, signer, now, signed, assembled, verifier, expired, insecure, conv>>

\* web_bot_auth_verifier.verify(&keyring, key_id, enforce_key_directory_lookup)
WebBotAuthVerify(key_id, enforce_key_directory_lookup) ==
    /\ pc = "parsed_as_web_bot_auth"
    /\ result' = ResultOf("web_bot_auth_verify",
                         Some([key_id |-> key_id,
                               enforce |-> enforce_key_directory_lookup]),
                         WebBotAuthVerifierVerify(web_bot_auth_verifier.v, KeyRing,
                                                  key_id, enforce_key_directory_lookup))
    /\ assembled' =
          IF /\ ~(enforce_key_directory_lookup
                    /\ web_bot_auth_verifier.v.key_directory.some)
             /\ KeyingMaterial(web_bot_auth_verifier.v.message_verifier,
                               KeyRing, key_id).some
          THEN AssembledBy("web_bot_auth_verify",
                           Ok(web_bot_auth_verifier.v.message_verifier.base))
          ELSE None
    /\ pc' = "verified_as_web_bot_auth"
    /\ UNCHANGED <<message, signer, now, signed, verifier, web_bot_auth_verifier,
                   expired, insecure, conv>>

\* verifier.is_expired()
IsExpired ==
    /\ pc = "parsed"
    /\ expired' = [asked |-> TRUE, at |-> now,
                   returned |-> MessageVerifierIsExpired(verifier.v, now)]
    /\ UNCHANGED <<message, signer, now, signed, assembled, verifier,
                   web_bot_auth_verifier, insecure, result, pc, conv>>

\* web_bot_auth_verifier.possibly_insecure()
PossiblyInsecure ==
    /\ pc = "parsed_as_web_bot_auth"
    /\ insecure' = [asked |-> TRUE, at |-> now,
                    returned |-> possibly_insecure(web_bot_auth_verifier.v, now)]
    /\ UNCHANGED <<message, signer, now, signed, assembled, verifier,
                   web_bot_auth_verifier, expired, result, pc, conv>>

\* a second of wall-clock time passes while a message this signer signed is
\* on its way or in the hands of the verifier
Tick ==
    /\ signed.some
    /\ pc \in {"signed", "parsed", "parsed_as_web_bot_auth"}
    /\ now < LastSecond
    /\ now' = now + 1
    /\ UNCHANGED <<message, signer, signed, assembled, verifier,
                   web_bot_auth_verifier, expired, insecure, result, pc, conv>>

Next ==
    \/ \E expires \in 0..MaxExpires, signing_key \in {"sk1", "sk2", "sk-31-bytes"} :
          Sign(expires, signing_key)
    \/ \E alg \in {None, Some("Ed25519")} : Parse(alg)
    \/ \E key_id \in KeyIds : Verify(key_id)
    \/ \E algorithm \in {None, Some("Ed25519")} : WebBotAuthParse(algorithm)
    \/ \E key_id \in KeyIds, enforce_key_directory_lookup \in BOOLEAN :
          WebBotAuthVerify(key_id, enforce_key_directory_lookup)
    \/ IsExpired
    \/ PossiblyInsecure
    \/ Tick

Spec == Init /\ [][Next]_vars

(***************************************************************************)
(* Conversions between sfv::Item and CoveredComponent: a text is parsed    *)
(* to an item, the item to a component, the component back to an item and  *)
(* the item serialized; a component is converted to an item and back.      *)
(***************************************************************************)

\* the parameters the texts are written with, repeated keys included
TextParameters ==
    {[key |-> "sf", val |-> BareBoolean(TRUE)],
     [key |-> "sf", val |-> BareBoolean(FALSE)],
     [key |-> "bs", val |-> BareBoolean(TRUE)],
     [key |-> "tr", val |-> BareBoolean(TRUE)],
     [key |-> "req", val |-> BareBoolean(TRUE)],
     [key |-> "req", val |-> BareBoolean(FALSE)],
     [key |-> "key", val |-> BareString("a")],
     [key |-> "key", val |-> BareToken("tok")],
     [key |-> "name", val |-> BareString("q")],
     [key |-> "req", val |-> BareInteger(1)]}

\* the values the parameter req of a derived component is written with
ReqValues ==
    {BareBoolean(TRUE), BareBoolean(FALSE), BareInteger(1), BareString("ddd"),
     BareToken("tok"), BareByteSequence("sig-64-bytes")}

\* the items whose text is parsed
TextItems ==
    {Item(BareString(n), p) :
        n \in {"Content-Length", "@authority", "@query-param"},
        p \in SeqsUpTo(TextParameters, MaxParams)}
    \cup
    {Item(b, p) :
        b \in {BareString(n) : n \in DerivedNames \cup
                   {"content-length", "@notacomponent", "@Authority"}}
              \cup {BareToken("tok"), BareInteger(1), BareBoolean(TRUE),
                    BareByteSequence("sig-64-bytes")},
        p \in {<<>>} \cup {<<[key |-> "req", val |-> v]>> : v \in ReqValues}
              \cup {<<[key |-> "sf", val |-> BareBoolean(TRUE)]>>,
                    <<[key |-> "req", val |-> BareBoolean(TRUE)],
                      [key |-> "tr", val |-> BareBoolean(TRUE)]>>}}

\* the texts parsed: the items as they are written, a true parameter written
\* in full, and a text that is no item
InputTexts ==
    {SerializeItem(i) : i \in TextItems}
    \cup {<<"\"", "content-length", "\"", ";", "sf", "=", "?1">>,
          <<"\"", "content-length">>}

\* the components that are converted to items
InputComponents ==
    {HTTP(n, p) :
        n \in {"content-length", "Content-Length", "@authority", "@notacomponent",
               "caf<U+00E9>", "line<LF>feed"},
        p \in SeqsUpTo({Sf, Bs, Tr, Req, Key("a"), Key("line<LF>feed")}, MaxParams)}
    \cup
    {Derived(v, r) :
        v \in {"Authority", "Method", "Path", "TargetUri", "RequestTarget",
               "Scheme", "Status", "Query"},
        r \in BOOLEAN}
    \cup
    {QueryParams(p) :
        p \in SeqsUpTo({Req, Name("q"), Name("p"), Name("line<LF>feed")}, MaxParams)}

InitComponents ==
    /\ conv \in
         {[NoConv EXCEPT !.origin = "text", !.stage = "text", !.text = t] :
             t \in InputTexts}
         \cup
         {[NoConv EXCEPT !.origin = "component", !.stage = "component",
                         !.component = Some(Ok(c))] : c \in InputComponents}
    /\ message = [components |-> <<>>, signature_input |-> None,
                  signature_header |-> None, signature_agent |-> None,
                  registered |-> 0]
    /\ signer = [keyid |-> "k1", nonce |-> "n1", tag |-> "web-bot-auth"]
    /\ now = 0
    /\ signed = None
    /\ assembled = None
    /\ verifier = None
    /\ web_bot_auth_verifier = None
    /\ expired = NotAsked
    /\ insecure = NotAsked
    /\ result = NoResult
    /\ pc = "converting"

\* sfv::Parser::new(text).parse_item()
ParseItemStep ==
    /\ conv.stage = "text"
    /\ conv' = [conv EXCEPT !.item = Some(ParseItem(conv.text)), !.stage = "item"]
    /\ UNCHANGED <<message, signer, now, signed, assembled, verifier,
                   web_bot_auth_verifier, expired, insecure, result, pc>>

\* CoveredComponent::try_from(item): of the item that was parsed, or of the
\* item a component was converted to
TryFromItem ==
    /\ \/ /\ conv.stage = "item"
          /\ conv.item.v.ok
          /\ conv' = [conv EXCEPT
                 !.component = Some(CoveredComponentTryFrom(conv.item.v.val)),
                 !.stage = "component"]
       \/ /\ conv.stage = "item_back"
          /\ conv.origin = "component"
          /\ conv.item_back.v.ok
          /\ conv' = [conv EXCEPT
                 !.component_back = Some(CoveredComponentTryFrom(conv.item_back.v.val)),
                 !.stage = "done"]
    /\ UNCHANGED <<message, signer, now, signed, assembled, verifier,
                   web_bot_auth_verifier, expired, insecure, result, pc>>

\* sfv::Item::try_from(component), as into_ascii converts each component
TryIntoItem ==
    /\ conv.stage = "component"
    /\ conv.component.v.ok
    /\ conv' = [conv EXCEPT
           !.item_back = Some(CoveredComponentToItem(conv.component.v.val)),
           !.stage = "item_back"]
    /\ UNCHANGED <<message, signer, now, signed, assembled, verifier,
                   web_bot_auth_verifier, expired, insecure, result, pc>>

\* sfv_item.serialize_value()
SerializeValue ==
    /\ conv.stage = "item_back"
    /\ conv.origin = "text"
    /\ conv.item_back.v.ok
    /\ conv' = [conv EXCEPT
           !.text_back = Some(SerializeItem(conv.item_back.v.val)),
           !.stage = "done"]
    /\ UNCHANGED <<message, signer, now, signed, assembled, verifier,
                   web_bot_auth_verifier, expired, insecure, result, pc>>

NextComponents == ParseItemStep \/ TryFromItem \/ TryIntoItem \/ SerializeValue

SpecComponents == InitComponents /\ [][NextComponents]_vars


(***************************************************************************)
(* The signature base of two assignments of values to the same covered     *)
(* components, under the same signature parameters.                        *)
(***************************************************************************)

\* the covered components the two bases are built over
BaseComponents == {Derived("Authority", FALSE), Derived("Path", FALSE)}

\* ordered lists of pairwise distinct covered components, as the keys of
\* the IndexMap are
BaseComponentLists ==
    {c \in SeqsUpTo(BaseComponents, MaxComponents) :
        c # <<>> /\ \A i, j \in DOMAIN c : i # j => c[i] # c[j]}

\* the text of a component line of the base for the component and the value,
\* without its line feed
ComponentLine(component, value) ==
    SerializeItem(CoveredComponentToItem(component).val) \o <<": ">> \o value

\* the value strings a message may return for a component: plain ones, one
\* with a line feed, and two that continue with a line for @path
BaseValues ==
    {<<"x">>, <<"y">>, <<"x", "\n", "y">>,
     <<"x", "\n">> \o ComponentLine(Derived("Path", FALSE), <<"y">>),
     <<"y", "\n">> \o ComponentLine(Derived("Path", FALSE), <<"y">>)}

\* the assignments of values to the components of a list
ValueAssignments(c) == [DOMAIN c -> BaseValues]

\* the SignatureBase of the components with the values and the parameters
SignatureBaseOf(c, values, params) ==
    [components |-> [i \in DOMAIN c |-> [component |-> c[i], value |-> values[i]]],
     parameters |-> SignatureParamsFrom(params)]

\* the two bases before into_ascii is called on either
InitBase ==
    /\ \E c \in BaseComponentLists, params \in {<<>>, FullParameters} :
         \E one \in ValueAssignments(c), other \in ValueAssignments(c) :
            conv = [origin |-> "base", stage |-> "values",
                    one |-> SignatureBaseOf(c, one, params),
                    other |-> SignatureBaseOf(c, other, params),
                    ascii_one |-> None, ascii_other |-> None]
    /\ message = [components |-> <<>>, signature_input |-> None,
                  signature_header |-> None, signature_agent |-> None,
                  registered |-> 0]
    /\ signer = [keyid |-> "k1", nonce |-> "n1", tag |-> "web-bot-auth"]
    /\ now = 0
    /\ signed = None
    /\ assembled = None
    /\ verifier = None
    /\ web_bot_auth_verifier = None
    /\ expired = NotAsked
    /\ insecure = NotAsked
    /\ result = NoResult
    /\ pc = "assembling"

\* into_ascii() on the first base
IntoAsciiOne ==
    /\ conv.origin = "base"
    /\ ~conv.ascii_one.some
    /\ conv' = [conv EXCEPT !.ascii_one = Some(into_ascii(conv.one))]
    /\ UNCHANGED <<message, signer, now, signed, assembled, verifier,
                   web_bot_auth_verifier, expired, insecure, result, pc>>

\* into_ascii() on the second base
IntoAsciiOther ==
    /\ conv.origin = "base"
    /\ ~conv.ascii_other.some
    /\ conv' = [conv EXCEPT !.ascii_other = Some(into_ascii(conv.other))]
    /\ UNCHANGED <<message, signer, now, signed, assembled, verifier,
                   web_bot_auth_verifier, expired, insecure, result, pc>>

NextBase == IntoAsciiOne \/ IntoAsciiOther

SpecBase == InitBase /\ [][NextBase]_vars
(***************************************************************************)
(* Claims.                                                                 *)
(***************************************************************************)

\* the HTTP field names the components of the message are held under
FieldNames(components) ==
    {components[i].component.name :
        i \in {j \in DOMAIN components : components[j].component.kind = "HTTP"}}

\* the verification of a message this model signed with sk1, under the key
\* the keyring holds for the signer's keyid k1, has returned
VerifiedOwnSignature ==
    /\ pc = "verified"
    /\ signed.some
    /\ signed.v.key = "sk1"
    /\ result.arg \in {None, Some("k1")}

\* C1: every message that generate_signature_headers_content signed is parsed
\* from its two registered headers, the verifier rebuilds the base that was
\* signed, and verify with the matching public key returns Ok.
C1_SignThenVerify ==
    /\ (signed.some /\ result.op = "parse") => result.ok
    /\ VerifiedOwnSignature =>
          /\ result.ok
          /\ assembled.some
          /\ assembled.v.out.ok
          /\ assembled.v.out.val[1] = signed.v.base

\* C1, for the messages whose HTTP field names are held in lowercase: the
\* round trip holds of the code
C1_SignThenVerifyLowercase ==
    (\A n \in FieldNames(message.components) : ToAsciiLowercase(n) = n)
        => C1_SignThenVerify

\* C1: a message covering the field held as Content-Length was signed and is
\* verified under the matching key
C1_Witness ==
    /\ VerifiedOwnSignature
    /\ "Content-Length" \in FieldNames(message.components)

\* into_ascii was called by the verifier and returned Ok(<<base, tail>>)
VerifierAssembled ==
    /\ assembled.some
    /\ assembled.v.by = "verify"
    /\ assembled.v.out.ok

\* the place in Signature-Input of the first member that is an inner list,
\* the one the selector |(_, _)| true takes
FirstInnerListPlace(msg) ==
    CHOOSE i \in DOMAIN ParseDictionary(msg.signature_input.v).val :
        /\ ParseDictionary(msg.signature_input.v).val[i].entry.kind = "innerlist"
        /\ \A j \in 1..(i - 1) :
              ParseDictionary(msg.signature_input.v).val[j].entry.kind # "innerlist"

\* the places around the members of a dictionary text: before it, at each
\* ", " and behind it
Separators(t) == {0} \cup {i \in DOMAIN t : t[i] = ", "} \cup {Len(t) + 1}

\* the k-th smallest of a set of numbers
Nth(S, k) == CHOOSE x \in S : Cardinality({y \in S : y < x}) = k - 1

\* the text of the k-th member of a dictionary text
MemberText(t, k) ==
    SubSeq(t, Nth(Separators(t), k) + 1, Nth(Separators(t), k + 1) - 1)

\* the text of the value of the selected entry of Signature-Input: the text
\* of the member behind its label and `=`
EntryText ==
    Drop(MemberText(message.signature_input.v, FirstInnerListPlace(message)), 2)

\* the inner list of that entry as sfv::Parser reads it
EntryInnerListOf(msg) ==
    ParseDictionary(msg.signature_input.v).val[FirstInnerListPlace(msg)].entry

\* an item as the conversions write it: the field name in lowercase, no
\* parameter whose value is Boolean false
NormalItem(i) ==
    Item(BareString(ToAsciiLowercase(i.bare_item.s)),
         SelectSeq(i.params, LAMBDA p : p.val # BareBoolean(FALSE)))

\* a sequence without the later occurrences of its elements
FirstOccurrences(s) ==
    LET keep == {i \in DOMAIN s : \A j \in 1..(i - 1) : s[j] # s[i]}
        place(k) == CHOOSE i \in keep : Cardinality({j \in keep : j < i}) = k - 1
    IN [k \in 1..Cardinality(keep) |-> s[place(k)]]

NormalItems(items) == [i \in DOMAIN items |-> NormalItem(items[i])]

\* C2 as stated: the signature-params line that into_ascii returns to the
\* verifier is the text of the value of the Signature-Input entry.
C2_ByteExactTail ==
    VerifierAssembled => assembled.v.out.val[2] = EntryText

\* C2: the signature-params line of the verifier is the inner list of the
\* entry with each item written in normal form (field name in lowercase,
\* parameters valued Boolean false left out), a repeated component written once
\* at its first place, and the signature parameters as they stand in the header,
\* in their order; it is the text of the entry when the items of the
\* entry are in normal form and pairwise different.
C2_NormalizedTail ==
    VerifierAssembled =>
        /\ assembled.v.out.val[2] =
              SerializeInnerList(InnerList(
                  FirstOccurrences(NormalItems(EntryInnerListOf(message).items)),
                  EntryInnerListOf(message).params))
        /\ (/\ NormalItems(EntryInnerListOf(message).items)
                  = EntryInnerListOf(message).items
            /\ FirstOccurrences(EntryInnerListOf(message).items)
                  = EntryInnerListOf(message).items)
           => assembled.v.out.val[2] = EntryText

\* C2: the verifier assembled the base of a received entry of two different
\* items in normal form with signature parameters
C2_Witness ==
    /\ VerifierAssembled
    /\ ~signed.some
    /\ Len(EntryInnerListOf(message).items) = 2
    /\ NormalItems(EntryInnerListOf(message).items) = EntryInnerListOf(message).items
    /\ EntryInnerListOf(message).items[1] # EntryInnerListOf(message).items[2]
    /\ Len(EntryInnerListOf(message).params) >= 2
    /\ assembled.v.out.val[2] = EntryText

\* the component lines of the pairs: for each pair in its order the item of
\* the component, ": ", the value and a line feed
ComponentLines(pairs) ==
    Concat([i \in DOMAIN pairs |->
        SerializeItem(CoveredComponentToItem(pairs[i].component).val)
            \o <<": ">> \o pairs[i].value \o <<"\n">>])

\* the last line of a base: "@signature-params": and the tail
LastLine(tail) == <<"\"", "@signature-params", "\"", ": ">> \o tail

\* each item of the selected inner list as the component it names, with the
\* value the message resolves it to
ItemPairs(msg) ==
    [i \in DOMAIN EntryInnerListOf(msg).items |->
        [component |-> CoveredComponentTryFrom(EntryInnerListOf(msg).items[i]).val,
         value |-> lookup_component(msg,
                       CoveredComponentTryFrom(EntryInnerListOf(msg).items[i]).val).v]]

\* into_ascii was called by the signer and returned Ok(<<base, tail>>)
SignerAssembled ==
    /\ assembled.some
    /\ assembled.v.by = "sign"
    /\ assembled.v.out.ok

\* the base of the signer holds one line per entry of
\* fetch_components_to_cover() in its iteration order
SignerLinesInOrder ==
    SignerAssembled =>
        assembled.v.out.val[1] =
            ComponentLines(message.components) \o LastLine(assembled.v.out.val[2])

\* C3 as stated: the base of the verifier holds one component line per item
\* of the selected inner list, the i-th line for the i-th item, repeated
\* components included; the base of the signer one line per covered entry.
C3_LinePerItem ==
    /\ SignerLinesInOrder
    /\ VerifierAssembled =>
          assembled.v.out.val[1] =
              ComponentLines(ItemPairs(message)) \o LastLine(assembled.v.out.val[2])

\* C3: the base of the verifier holds one component line per different
\* component of the selected inner list, in the order of their first
\* occurrences (a repeated component has one line, at its first place); the
\* base of the signer holds one line per covered entry in iteration order.
C3_LinePerComponent ==
    /\ SignerLinesInOrder
    /\ VerifierAssembled =>
          assembled.v.out.val[1] =
              ComponentLines(FirstOccurrences(ItemPairs(message)))
                  \o LastLine(assembled.v.out.val[2])

\* C3: the verifier assembled the base of an inner list of two different
\* components
C3_Witness ==
    /\ VerifierAssembled
    /\ Len(ItemPairs(message)) = 2
    /\ ItemPairs(message)[1].component # ItemPairs(message)[2].component
    /\ Len(assembled.v.base.components) = 2

\* the text with sep between the lines
JoinLines(lines) == Join(lines, <<"\n">>)

\* C4: into_ascii returns (base, tail): base is the lines `<item>: <value>`
\* of the components in order, each ended by a line feed, then the line
\* `"@signature-params": <tail>` without a line feed after it; tail is the
\* inner list of the items of the components with the raw parameters; without
\* components the base is that last line alone.
C4_BaseFormat ==
    (assembled.some /\ assembled.v.out.ok) =>
        /\ assembled.v.out.val[2] =
              <<"(">>
              \o Join([i \in DOMAIN assembled.v.base.components |->
                        SerializeItem(CoveredComponentToItem(
                            assembled.v.base.components[i].component).val)],
                      <<" ">>)
              \o <<")">> \o SerializeParameters(assembled.v.base.parameters.raw)
        /\ assembled.v.out.val[1] =
              JoinLines(
                  [i \in DOMAIN assembled.v.base.components |->
                      SerializeItem(CoveredComponentToItem(
                          assembled.v.base.components[i].component).val)
                      \o <<": ">> \o assembled.v.base.components[i].value]
                  \o << <<"\"", "@signature-params", "\"", ": ">>
                        \o assembled.v.out.val[2] >>)
        /\ assembled.v.base.components = <<>> =>
              assembled.v.out.val[1] =
                  <<"\"", "@signature-params", "\"", ": ", "(", ")">>
                  \o SerializeParameters(assembled.v.base.parameters.raw)

\* C4: into_ascii returned the base of two components with parameters
C4_Witness ==
    /\ assembled.some
    /\ assembled.v.out.ok
    /\ Len(assembled.v.base.components) = 2
    /\ assembled.v.base.parameters.raw # <<>>

\* some value of the pairs holds a non-ASCII byte
NonAsciiValue(pairs) ==
    \E i \in DOMAIN pairs : ~TextIsAscii(pairs[i].value)

\* some HTTP field name of the pairs holds a non-ASCII byte
NonAsciiName(pairs) ==
    \E n \in FieldNames(pairs) : ~IsAscii(n)

\* every component of the pairs converts to an sfv::Item
AllConvert(pairs) ==
    \A i \in DOMAIN pairs : CoveredComponentToItem(pairs[i].component).ok

\* the operation that ran last failed with NonAsciiContentFound
FailedNonAscii == ~result.ok /\ result.err = "NonAsciiContentFound"

\* the operation that ran last is the one whose call of into_ascii is recorded
Assembling == assembled.some /\ result.op = assembled.v.by

C6_RegisterOnce ==
    [][pc = "unsigned" =>
          IF result'.ok
          THEN /\ message'.registered = message.registered + 1
               /\ message'.signature_input = Some(<<"sig1", "=">> \o assembled'.v.out.val[2])
               /\ message'.signature_header.some
               /\ message'.components = message.components
          ELSE message' = message]_vars

\* C6: signing failed on the length of the key, the last of its checks, and
\* nothing is registered
C6_Witness ==
    /\ result.op = "sign"
    /\ result.err = "InvalidKeyLength"
    /\ message.registered = 0
    /\ message.signature_input = None

\* the symbols of a base or tail
Symbols(t) == {t[i] : i \in DOMAIN t}

\* C9 as stated: an HTTP field whose name is held as Content-Length, parsed
\* from an item or returned by fetch_components_to_cover, is written as
\* "content-length" in the base and in the signature-params line.
C9_LowercaseNames ==
    (assembled.some /\ assembled.v.out.ok) =>
        /\ "Content-Length" \notin Symbols(assembled.v.out.val[1])
        /\ "Content-Length" \notin Symbols(assembled.v.out.val[2])
        /\ "Content-Length" \in FieldNames(message.components)
              => "content-length" \in Symbols(assembled.v.out.val[1])

\* C9, on the parsing path: the base of the verifier holds no field name that
\* is not in lowercase
C9_ParsedNamesLowercase ==
    VerifierAssembled =>
        \A n \in FieldNames(assembled.v.base.components) : ToAsciiLowercase(n) = n

\* C9: the signer assembled the base of a message that covers the field held
\* as Content-Length
C9_Witness ==
    /\ SignerAssembled
    /\ "Content-Length" \in FieldNames(message.components)

\* a text was parsed to an item that CoveredComponent::try_from accepted
TextAccepted ==
    /\ conv.origin = "text"
    /\ conv.component.some
    /\ conv.component.v.ok

\* the text with the string of its bare item in lowercase
LowercasedText(t) ==
    IF Len(t) >= 3 /\ t[1] = "\"" THEN [t EXCEPT ![2] = ToAsciiLowercase(@)] ELSE t

\* C7 as stated: the item of an accepted text converts back to an item whose
\* serialization is the text with only the HTTP field name in lowercase.
C7_ParseThenSerialize ==
    TextAccepted =>
        /\ conv.item_back.some => conv.item_back.v.ok
        /\ conv.text_back.some => conv.text_back.v = LowercasedText(conv.text)

\* C7: the component of an accepted text converts back to an item, and the
\* serialization of that item is the item that was parsed with the field name
\* in lowercase and without the parameters whose value is Boolean false (a
\* parameter key that the text repeats stands once, at its first place with
\* its last value, as sfv parses it); the other parameters, their values and
\* their order are unchanged, so the text itself comes back, its name in
\* lowercase, when it repeats no key and holds no parameter valued false.
C7_NormalizedRoundTrip ==
    TextAccepted =>
        /\ conv.item_back.some => conv.item_back.v.ok
        /\ conv.text_back.some =>
              /\ conv.text_back.v = SerializeItem(NormalItem(conv.item.v.val))
              /\ (/\ SerializeItem(conv.item.v.val) = conv.text
                  /\ NormalItem(conv.item.v.val).params = conv.item.v.val.params)
                 => conv.text_back.v = LowercasedText(conv.text)

\* C7: the text of the field Content-Length with three parameters came back
\* with the name in lowercase
C7_Witness ==
    /\ TextAccepted
    /\ conv.text_back.some
    /\ conv.item.v.val.bare_item = BareString("Content-Length")
    /\ Len(conv.item.v.val.params) = 3
    /\ conv.text_back.v = LowercasedText(conv.text)
    /\ conv.text_back.v # conv.text

\* the tags of a parameter sequence
Tags(parameters) == {parameters[i].tag : i \in DOMAIN parameters}

\* no tag stands twice in the sequence
TagsOnce(parameters) ==
    \A i, j \in DOMAIN parameters : i # j => parameters[i].tag # parameters[j].tag

\* valid as C8 reads it: HTTP field with a lowercase ASCII name, no tag twice,
\* at most one of Sf, Bs, Key and a Key string that sfv accepts; derived
\* component whose query-param parameters hold no tag twice
ValidAsStated(c) ==
    /\ TagsOnce(c.parameters)
    /\ c.kind = "HTTP" =>
          /\ ToAsciiLowercase(c.name) = c.name
          /\ IsAscii(c.name)
          /\ Cardinality(Tags(c.parameters) \cap {"Sf", "Bs", "Key"}) <= 1
          /\ \A i \in DOMAIN c.parameters : IsSfvString(c.parameters[i].s)

\* what the conversions need beyond that: a field name of printable ASCII
\* that does not start with "@", a Name string of printable ASCII
Writable(c) ==
    /\ c.kind = "HTTP" => (IsSfvString(c.name) /\ ~StartsWithAt(c.name))
    /\ \A i \in DOMAIN c.parameters : IsSfvString(c.parameters[i].s)

\* a component was given to be converted to an item and back
ComponentGiven == conv.origin = "component" /\ conv.component.some

\* C8 as stated: every valid HTTPField and DerivedComponent converts to an
\* item, and the item converts back to an equal component.
C8_SerializeThenParse ==
    (ComponentGiven /\ ValidAsStated(conv.component.v.val)) =>
        /\ conv.item_back.some => conv.item_back.v.ok
        /\ conv.component_back.some => conv.component_back.v = conv.component.v

\* C8: every HTTPField with a lowercase name of printable ASCII that does not
\* start with "@", no tag twice, at most one of Sf, Bs, Key and a Key string of
\* printable ASCII, and every DerivedComponent whose query-param parameters
\* hold no tag twice and a Name string of printable ASCII, converts to an item,
\* and the item converts back to an equal component, parameter order included.
C8_ValidRoundTrip ==
    (ComponentGiven /\ ValidAsStated(conv.component.v.val)
        /\ Writable(conv.component.v.val)) =>
        /\ conv.item_back.some => conv.item_back.v.ok
        /\ conv.component_back.some => conv.component_back.v = conv.component.v

\* C8: an HTTP field with three parameters was converted to an item and back
C8_Witness ==
    /\ ComponentGiven
    /\ conv.component.v.val = HTTP("content-length", <<Req, Key("a"), Tr>>)
    /\ conv.component_back = Some(Ok(HTTP("content-length", <<Req, Key("a"), Tr>>)))

\* an item with the name of an HTTP field was parsed from a text and handed
\* to CoveredComponent::try_from, which hands its sfv::Parameters to the
\* conversion to HTTPFieldParametersSet
FieldParametersParsed ==
    /\ conv.origin = "text"
    /\ conv.component.some
    /\ conv.item.v.val.bare_item.type = "string"
    /\ ~StartsWithAt(conv.item.v.val.bare_item.s)

\* the sfv::Parameters hold a parameter under key
Holds(params, key) == \E i \in DOMAIN params : params[i].key = key

\* the sfv::Parameters hold the parameter key with the value Boolean true
HoldsTrue(params, key) ==
    \E i \in DOMAIN params : params[i].key = key /\ params[i].val = BareBoolean(TRUE)

\* the sfv::Parameters hold the parameter key with a value of another type
HoldsOtherThan(params, key, type) ==
    \E i \in DOMAIN params : params[i].key = key /\ params[i].val.type # type

\* how many of sf (true), bs (true) and key the sfv::Parameters hold
ExclusiveCount(params) ==
    Cardinality({k \in {"sf", "bs"} : HoldsTrue(params, k)}
                \cup {k \in {"key"} : Holds(params, k)})

\* the conversion failed with ParsingError
RejectedAsParsingError(r) == ~r.ok /\ r.err = "ParsingError"

\* C10: an HTTPFieldParametersSet that parsing returns as Ok holds each tag at
\* most once and at most one of Sf, Bs, Key; sfv::Parameters that hold two of
\* sf (true), bs (true) and key are rejected with ParsingError in every order
\* and with req or tr between them, and so are a key that is no string, an sf,
\* bs, tr or req that is no boolean, and a parameter of another name.
C10_ParameterInvariant ==
    FieldParametersParsed =>
        /\ conv.component.v.ok =>
              /\ TagsOnce(conv.component.v.val.parameters)
              /\ Cardinality(Tags(conv.component.v.val.parameters)
                             \cap {"Sf", "Bs", "Key"}) <= 1
        /\ ExclusiveCount(conv.item.v.val.params) >= 2
              => RejectedAsParsingError(conv.component.v)
        /\ HoldsOtherThan(conv.item.v.val.params, "key", "string")
              => RejectedAsParsingError(conv.component.v)
        /\ (\E k \in {"sf", "bs", "tr", "req"} :
                HoldsOtherThan(conv.item.v.val.params, k, "boolean"))
              => RejectedAsParsingError(conv.component.v)
        /\ (\E i \in DOMAIN conv.item.v.val.params :
                conv.item.v.val.params[i].key \notin {"sf", "bs", "tr", "req", "key"})
              => RejectedAsParsingError(conv.component.v)

\* C10: the parameters sf, tr, key in this order were rejected
C10_Witness ==
    /\ FieldParametersParsed
    /\ conv.item.v.val.params =
          <<[key |-> "sf", val |-> BareBoolean(TRUE)],
            [key |-> "tr", val |-> BareBoolean(TRUE)],
            [key |-> "key", val |-> BareString("a")]>>
    /\ RejectedAsParsingError(conv.component.v)


\* the component given to be converted
Given == conv.component.v.val

\* C11: an HTTPFieldParametersSet or a QueryParamParametersSet that holds a
\* tag twice, at any two places, does not convert to sfv::Parameters, and the
\* HTTPField or DerivedComponent::QueryParams that holds it does not convert
\* to an sfv::Item: each conversion returns an error.
C11_DuplicatesRejected ==
    (ComponentGiven /\ conv.item_back.some /\ ~TagsOnce(Given.parameters)) =>
        /\ ~conv.item_back.v.ok
        /\ Given.kind = "HTTP" => ~HTTPFieldParametersSetToSfv(Given.parameters).ok
        /\ Given.kind = "Derived" => ~QueryParamParametersSetToSfv(Given.parameters).ok

\* C11: a field whose parameters hold Req at the first and at the last of
\* three places was refused
C11_Witness ==
    /\ ComponentGiven
    /\ Given = HTTP("content-length", <<Req, Tr, Req>>)
    /\ conv.item_back = Some(Err("ParsingError"))

\* C12 as stated: an HTTPFieldParametersSet that holds two different tags
\* out of Sf, Bs, Key, in either order and with or without Tr or Req between
\* them, does not convert to sfv::Parameters.
C12_ExclusionRechecked ==
    (ComponentGiven /\ Given.kind = "HTTP" /\ conv.item_back.some
        /\ Cardinality(Tags(Given.parameters) \cap {"Sf", "Bs", "Key"}) >= 2)
    => ~HTTPFieldParametersSetToSfv(Given.parameters).ok

\* the place of the first parameter of the sequence with the tag
FirstPlace(parameters, tag) ==
    CHOOSE i \in DOMAIN parameters :
        /\ parameters[i].tag = tag
        /\ \A j \in 1..(i - 1) : parameters[j].tag # tag

\* C12, as far as the conversion checks: a sequence in which Sf or Bs stands
\* after another tag out of Sf, Bs, Key is refused; a sequence whose tags
\* stand once, with a Key of printable ASCII standing after Sf or after Bs
\* and Sf and Bs not both present, converts.
C12_ExclusionWhereChecked ==
    (ComponentGiven /\ Given.kind = "HTTP") =>
        /\ (\E i, j \in DOMAIN Given.parameters :
               /\ i < j
               /\ Given.parameters[j].tag \in {"Sf", "Bs"}
               /\ Given.parameters[i].tag \in {"Sf", "Bs", "Key"} \ {Given.parameters[j].tag})
           => ~HTTPFieldParametersSetToSfv(Given.parameters).ok
        /\ (/\ TagsOnce(Given.parameters)
            /\ "Key" \in Tags(Given.parameters)
            /\ Cardinality(Tags(Given.parameters) \cap {"Sf", "Bs"}) = 1
            /\ \A t \in Tags(Given.parameters) \cap {"Sf", "Bs"} :
                   FirstPlace(Given.parameters, t) < FirstPlace(Given.parameters, "Key")
            /\ \A i \in DOMAIN Given.parameters : IsSfvString(Given.parameters[i].s))
           => HTTPFieldParametersSetToSfv(Given.parameters).ok

\* C12: the field with the parameters Sf, Req, Key was converted to an item
C12_Witness ==
    /\ ComponentGiven
    /\ Given = HTTP("content-length", <<Sf, Req, Key("a")>>)
    /\ conv.item_back.some
    /\ conv.item_back.v.ok

\* an item was parsed from a text and handed to CoveredComponent::try_from
ItemHanded == conv.origin = "text" /\ conv.component.some

\* the item that was handed over
Handed == conv.item.v.val

\* C13: an item whose bare item is no string is a ParsingError; an item whose
\* string starts with "@" parses only when the string is one of the nine
\* derived names; under one of the eight names other than "@query-param" it
\* parses to that component with req false when it has no parameters and with
\* req the value when its one parameter is req with a boolean value, and is a
\* ParsingError with any other parameter name, a req that is no boolean, or
\* more than one parameter.
C13_DerivedParsing ==
    ItemHanded =>
        /\ Handed.bare_item.type # "string" => RejectedAsParsingError(conv.component.v)
        /\ (Handed.bare_item.type = "string" /\ StartsWithAt(Handed.bare_item.s)
               /\ Handed.bare_item.s \notin DerivedNames)
           => RejectedAsParsingError(conv.component.v)
        /\ (Handed.bare_item.type = "string"
               /\ Handed.bare_item.s \in DerivedNames \ {"@query-param"})
           => IF Handed.params = <<>>
              THEN /\ conv.component.v.ok
                   /\ conv.component.v.val.kind = "Derived"
                   /\ DerivedNameOf(conv.component.v.val.variant) = Handed.bare_item.s
                   /\ conv.component.v.val.req = FALSE
              ELSE IF /\ Len(Handed.params) = 1
                      /\ Handed.params[1].key = "req"
                      /\ Handed.params[1].val.type = "boolean"
              THEN /\ conv.component.v.ok
                   /\ conv.component.v.val.kind = "Derived"
                   /\ DerivedNameOf(conv.component.v.val.variant) = Handed.bare_item.s
                   /\ conv.component.v.val.req = (Handed.params[1].val = BareBoolean(TRUE))
              ELSE RejectedAsParsingError(conv.component.v)

\* C13: "@status" with a req that is a byte sequence was refused
C13_Witness ==
    /\ ItemHanded
    /\ Handed = Item(BareString("@status"),
                     <<[key |-> "req", val |-> BareByteSequence("sig-64-bytes")]>>)
    /\ RejectedAsParsingError(conv.component.v)

(***************************************************************************)
(* Claims about WebBotAuthVerifier and MessageVerifier on messages that    *)
(* arrive.                                                                 *)
(***************************************************************************)

\* the members of the Signature-Input of the message, in dictionary order
Entries == ParseDictionary(message.signature_input.v).val

\* the Signature-Agent of the message is a string that starts with https or data
DirectoryRecorded ==
    message.signature_agent \in {Some(<<"\"", "https://directory.example", "\"">>),
                                 Some(<<"\"", "data:application/jwk", "\"">>)}

\* the Signature-Agent of the message, if any, is a structured field item
AgentReadable ==
    message.signature_agent # Some(<<"\"", "https://directory.example">>)

\* the parameter names of a member and its parameter tag
KeysOf(m) == {m.entry.params[i].key : i \in DOMAIN m.entry.params}
TagsOf(m) == {m.entry.params[i].val : i \in {j \in DOMAIN m.entry.params :
                                               m.entry.params[j].key = "tag"}}

\* the items of a member that are this string with no parameters
Bare(m, name) ==
    {i \in DOMAIN m.entry.items :
        /\ m.entry.items[i].bare_item = [type |-> "string", s |-> name, n |-> 0]
        /\ m.entry.items[i].params = <<>>}

\* the selection rule of web-bot-auth as the claim words it
Satisfying(m) ==
    /\ m.entry.kind = "innerlist"
    /\ {"keyid", "tag", "expires", "created"} \subseteq KeysOf(m)
    /\ TagsOf(m) = {[type |-> "string", s |-> "web-bot-auth", n |-> 0]}
    /\ \/ Bare(m, "@authority") # {}
       \/ DirectoryRecorded /\ Bare(m, "signature-agent") # {}

\* the first member of the Signature-Input that satisfies the rule
FirstSatisfying ==
    Entries[CHOOSE i \in DOMAIN Entries :
               /\ Satisfying(Entries[i])
               /\ \A j \in 1..(i - 1) : ~Satisfying(Entries[j])]

\* the message with this member alone in its Signature-Input
Only(m) == [message EXCEPT !.signature_input = Some(SerializeDictionary(<<m>>))]

\* C14: WebBotAuthVerifier::parse selects an inner list exactly when its
\* parameters include keyid, tag, expires and created, its tag is the string
\* web-bot-auth and its items contain "@authority" without parameters or,
\* when a key directory was recorded, "signature-agent" without parameters:
\* with a readable Signature-Agent the outcome is that of parsing the first
\* such member alone, and a ParsingError when there is none.
C14_WebBotAuthSelection ==
    (result.op = "web_bot_auth_parse" /\ AgentReadable) =>
        IF \E i \in DOMAIN Entries : Satisfying(Entries[i])
        THEN \E r \in {MessageVerifierParse(Only(FirstSatisfying), result.arg, PickAny)} :
                /\ result.ok = r.ok
                /\ r.ok => /\ web_bot_auth_verifier.some
                           /\ web_bot_auth_verifier.v.message_verifier = r.val
                /\ ~r.ok => /\ result.err = r.err
                            /\ web_bot_auth_verifier = None
        ELSE /\ ~result.ok
             /\ result.err = "ParsingError"
             /\ web_bot_auth_verifier = None

\* a member that holds "signature-agent" and not "@authority" was selected
\* because a key directory was recorded
C14_Witness ==
    /\ result.op = "web_bot_auth_parse"
    /\ result.ok
    /\ DirectoryRecorded
    /\ Bare(Entries[1], "@authority") = {}
    /\ Bare(Entries[1], "signature-agent") # {}

\* the tag not-web-bot-auth: no member is selected
C14_WitnessOtherTag ==
    /\ result.op = "web_bot_auth_parse"
    /\ ~result.ok
    /\ Len(Entries) = 1
    /\ TagsOf(Entries[1]) = {[type |-> "string", s |-> "not-web-bot-auth", n |-> 0]}

\* a parse of either verifier has just returned, on a message whose
\* Signature-Agent did not stop it
ParseReturned == result.op \in {"parse", "web_bot_auth_parse"} /\ AgentReadable

\* the MessageVerifier the parse produced
Produced ==
    IF result.op = "web_bot_auth_parse"
    THEN IF web_bot_auth_verifier.some
         THEN Some(web_bot_auth_verifier.v.message_verifier) ELSE None
    ELSE verifier

\* the selector of the parse that ran returns true for the member
SelectorTrue(m) == IF result.op = "parse" THEN TRUE ELSE Satisfying(m)

\* the members the parse may select: inner lists the selector accepts
Candidates ==
    {i \in DOMAIN Entries : Entries[i].entry.kind = "innerlist" /\ SelectorTrue(Entries[i])}

\* the first of them in dictionary order
FirstCandidate == Entries[CHOOSE i \in Candidates : \A j \in Candidates : i <= j]

\* the members of the Signature dictionary under the label
SignaturesUnder(label) ==
    {m \in {ParseDictionary(message.signature_header.v).val[i] :
               i \in DOMAIN ParseDictionary(message.signature_header.v).val} :
        m.key = label}

\* the Signature dictionary holds a byte sequence item under the label
SignatureShaped(label) ==
    /\ SignaturesUnder(label) # {}
    /\ \A m \in SignaturesUnder(label) :
          m.entry.kind = "item" /\ m.entry.bare_item.type = "bytes"

\* every item of the member parses as a covered component and the message
\* has a value for it
ComponentsResolve(m) ==
    \A i \in DOMAIN m.entry.items :
        /\ CoveredComponentTryFrom(m.entry.items[i]).ok
        /\ lookup_component(message, CoveredComponentTryFrom(m.entry.items[i]).val).some

\* the verifier is made of the member: its signature, components, parameters
MadeOf(v, m) ==
    /\ \E s \in SignaturesUnder(m.key) : v.signature = s.entry.bare_item.s
    /\ {v.base.components[i].component : i \in DOMAIN v.base.components}
         = {CoveredComponentTryFrom(m.entry.items[i]).val : i \in DOMAIN m.entry.items}
    /\ v.base.parameters = SignatureParamsFrom(m.entry.params)

\* C15: MessageVerifier::parse skips the members of Signature-Input that are
\* not inner lists, takes the first inner list the selector accepts and commits
\* to it: when Signature has no byte sequence item under its label, or one of
\* its components does not parse or resolve, parse returns an error whatever
\* later members are; when no member is accepted parse fails with ParsingError;
\* a verifier that is produced is made of that first member.
C15_FirstMatchCommits ==
    ParseReturned =>
        IF Candidates = {}
        THEN ~result.ok /\ result.err = "ParsingError" /\ Produced = None
        ELSE IF ~SignatureShaped(FirstCandidate.key)
        THEN ~result.ok /\ result.err = "ParsingError" /\ Produced = None
        ELSE IF ~ComponentsResolve(FirstCandidate)
        THEN ~result.ok /\ Produced = None
        ELSE result.ok => Produced.some /\ MadeOf(Produced.v, FirstCandidate)

\* a later member would have parsed: the first one was selected and lacks a
\* signature or a component, and parse returned an error
C15_Witness ==
    /\ ParseReturned
    /\ Len(Entries) = 2
    /\ Candidates = {1, 2}
    /\ SignatureShaped(Entries[2].key) /\ ComponentsResolve(Entries[2])
    /\ ~SignatureShaped(Entries[1].key) \/ ~ComponentsResolve(Entries[1])
    /\ ~result.ok

\* a member that is not an inner list was skipped and the next one selected
C15_WitnessSkipped ==
    /\ ParseReturned
    /\ Len(Entries) = 2
    /\ Candidates = {2}
    /\ Entries[1].entry.kind = "item"
    /\ result.ok
    /\ MadeOf(Produced.v, Entries[2])

\* two members are accepted and the first is the one the verifier is made of
C15_WitnessFirst ==
    /\ ParseReturned
    /\ Candidates = {1, 2}
    /\ result.ok
    /\ MadeOf(Produced.v, Entries[1])
    /\ ~MadeOf(Produced.v, Entries[2])

\* the covered components of the selected member, in inner-list order
SelectedComponents ==
    [i \in DOMAIN FirstCandidate.entry.items |->
        CoveredComponentTryFrom(FirstCandidate.entry.items[i])]

\* the places of the selected member whose component the message has no
\* value for
Unresolved ==
    {i \in DOMAIN SelectedComponents :
        ~lookup_component(message, SelectedComponents[i].val).some}

\* a member was selected, Signature holds a byte sequence under its label and
\* every one of its items parses
SelectedAndParsed ==
    /\ ParseReturned
    /\ Candidates # {}
    /\ SignatureShaped(FirstCandidate.key)
    /\ \A i \in DOMAIN SelectedComponents : SelectedComponents[i].ok

\* C16: when every item of the selected inner list parses and the message
\* has no value for at least one of the components, MessageVerifier::parse
\* fails with LookupError carrying the first such component in inner-list
\* order and produces no verifier.
C16_LookupErrorFirstMissing ==
    (SelectedAndParsed /\ Unresolved # {}) =>
        /\ ~result.ok
        /\ result.err = "LookupError"
        /\ result.carried =
              Some(SelectedComponents[CHOOSE i \in Unresolved :
                                         \A j \in Unresolved : i <= j].val)
        /\ Produced = None
        /\ pc = "rejected"

\* ("@method") on a message that holds @method;req only: Method{req:false}
C16_Witness ==
    /\ SelectedAndParsed
    /\ Unresolved # {}
    /\ result.carried = Some(Derived("Method", FALSE))

\* the missing component is the second of the inner list
C16_WitnessSecond ==
    /\ SelectedAndParsed
    /\ Unresolved = {2}
    /\ result.err = "LookupError"

\* every step of parse before the choice of the algorithm has passed
BaseBuilt == SelectedAndParsed /\ Unresolved = {}

\* the values of the parameter of the selected member under the key
ValuesUnder(key) ==
    {FirstCandidate.entry.params[i].val :
        i \in {j \in DOMAIN FirstCandidate.entry.params :
                  FirstCandidate.entry.params[j].key = key}}

\* the alg parameter of the selected member is the string ed25519
AlgIsEd25519 == ValuesUnder("alg") = {[type |-> "string", s |-> "ed25519", n |-> 0]}

\* C17: MessageVerifier::parse, once the signature base is built, uses the
\* algorithm the caller supplies when there is one, whatever the alg parameter
\* is; without one it uses the parsed alg and fails with UnsupportedAlgorithm
\* exactly when alg is absent or is not the string ed25519.
C17_AlgorithmChoice ==
    /\ BaseBuilt =>
          IF result.arg.some
          THEN result.ok /\ Produced.some /\ Produced.v.algorithm = result.arg.v
          ELSE IF AlgIsEd25519
          THEN result.ok /\ Produced.some /\ Produced.v.algorithm = "Ed25519"
          ELSE ~result.ok /\ result.err = "UnsupportedAlgorithm" /\ Produced = None
    /\ (ParseReturned /\ ~result.ok /\ result.err = "UnsupportedAlgorithm") =>
          BaseBuilt /\ ~result.arg.some /\ ~AlgIsEd25519

\* the caller supplied the algorithm and alg is absent: parse succeeded
C17_Witness ==
    /\ BaseBuilt
    /\ result.arg = Some("Ed25519")
    /\ ValuesUnder("alg") = {}
    /\ result.ok

\* no algorithm supplied and alg is a token, an unknown string, or absent
C17_WitnessToken ==
    /\ BaseBuilt /\ ~result.arg.some /\ result.err = "UnsupportedAlgorithm"
    /\ ValuesUnder("alg") = {[type |-> "token", s |-> "ed25519", n |-> 0]}
C17_WitnessUnknown ==
    /\ BaseBuilt /\ ~result.arg.some /\ result.err = "UnsupportedAlgorithm"
    /\ ValuesUnder("alg") = {[type |-> "string", s |-> "ED25519", n |-> 0]}
C17_WitnessAbsent ==
    /\ BaseBuilt /\ ~result.arg.some /\ result.err = "UnsupportedAlgorithm"
    /\ ValuesUnder("alg") = {}

\* the MessageVerifier that verify consumed
Verified ==
    IF result.op = "web_bot_auth_verify"
    THEN web_bot_auth_verifier.v.message_verifier ELSE verifier.v

\* the key identifier handed to verify
KeyIdGiven == IF result.op = "web_bot_auth_verify" THEN result.arg.v.key_id ELSE result.arg

\* verify of the MessageVerifier ran: called directly or through a
\* WebBotAuthVerifier that delegates
VerifyRan ==
    \/ result.op = "verify"
    \/ /\ result.op = "web_bot_auth_verify"
       /\ ~(result.arg.v.enforce /\ web_bot_auth_verifier.v.key_directory.some)

\* the string values of the keyid parameter of the verified signature
KeyidStrings ==
    {Verified.base.parameters.raw[i].val.s :
        i \in {j \in DOMAIN Verified.base.parameters.raw :
                  /\ Verified.base.parameters.raw[j].key = "keyid"
                  /\ Verified.base.parameters.raw[j].val.type = "string"}}

\* the identifiers the claim lets verify look up
KeyChoice == IF KeyIdGiven.some THEN {KeyIdGiven.v} ELSE KeyidStrings

\* the keys of the keyring under these identifiers
KeysUnder(ids) == {e.key : e \in {k \in KeyRing : k.id \in ids}}

\* C18: MessageVerifier::verify looks up the identifier the caller supplies
\* when there is one and the parsed keyid otherwise; it returns NoSuchKey
\* exactly when it has no identifier or the keyring does not hold it, also
\* when the keyid of the message is in the keyring and the caller's is not;
\* otherwise its outcome is that of verifying with the key under the
\* identifier.
C18_KeyChoice ==
    VerifyRan =>
        IF KeysUnder(KeyChoice) = {}
        THEN ~result.ok /\ result.err = "NoSuchKey"
        ELSE \E key \in KeysUnder(KeyChoice) :
                \E r \in {VerifyBase(Verified, key, into_ascii(Verified.base))} :
                    /\ result.ok = r.ok
                    /\ ~r.ok => result.err = r.err /\ r.err # "NoSuchKey"

\* the caller's identifier is not in the keyring, the keyid of the message is
C18_Witness ==
    /\ VerifyRan
    /\ KeyIdGiven = Some("k-absent")
    /\ KeyidStrings = {"k1"}
    /\ result.err = "NoSuchKey"

\* the caller's identifier is used although the message names another key
C18_WitnessGiven ==
    /\ VerifyRan
    /\ KeyIdGiven = Some("k-short")
    /\ KeyidStrings = {"k1"}
    /\ result.err = "InvalidKeyLength"

\* no identifier is given: the keyid of the message is an integer, or absent
C18_WitnessNotString ==
    /\ VerifyRan /\ ~KeyIdGiven.some /\ result.err = "NoSuchKey"
    /\ \E i \in DOMAIN Verified.base.parameters.raw :
          /\ Verified.base.parameters.raw[i].key = "keyid"
          /\ Verified.base.parameters.raw[i].val.type = "integer"

\* no identifier is given and the keyid of the message is used
C18_WitnessParsed ==
    /\ VerifyRan /\ ~KeyIdGiven.some /\ KeyidStrings = {"k1"} /\ result.ok

\* the values of the expires parameter of the signature the verifier holds
ExpiresValues ==
    {verifier.v.base.parameters.raw[i].val :
        i \in {j \in DOMAIN verifier.v.base.parameters.raw :
                  verifier.v.base.parameters.raw[j].key = "expires"}}

\* the read of the wall clock, or its conversion to a signed 64-bit integer,
\* failed
ClockFailed == expired.at < 0 \/ expired.at > I64Max

\* what is_expired returns by the words of the claim
ExpiryAsStated ==
    IF ExpiresValues = {} THEN expired.returned = None
    ELSE /\ expired.returned.some
         /\ expired.returned.v =
               \E e \in ExpiresValues : e.n <= 0 \/ expired.at >= e.n \/ ClockFailed

\* C19: is_expired returns None when the expires parameter is absent;
\* otherwise it returns true exactly when expires <= 0, or the wall time in
\* whole seconds is at or after expires, or the clock read or its conversion
\* to a signed 64-bit integer failed.
C19_Expiry == expired.asked => ExpiryAsStated

\* C19 for the signatures whose expires is an integer or is absent
C19_ExpiryOfIntegers ==
    (expired.asked /\ \A e \in ExpiresValues : e.type = "integer") => ExpiryAsStated

\* expires is present and is a string: is_expired returned None
C19_Witness ==
    /\ expired.asked
    /\ ExpiresValues = {[type |-> "string", s |-> "1", n |-> 0]}
    /\ expired.returned = None

\* true at the second equal to expires, false one second earlier
C19_WitnessAt ==
    /\ expired.asked /\ ExpiresValues = {[type |-> "integer", s |-> "", n |-> 1]}
    /\ expired.at = 1 /\ expired.returned = Some(TRUE)
C19_WitnessBefore ==
    /\ expired.asked /\ ExpiresValues = {[type |-> "integer", s |-> "", n |-> 1]}
    /\ expired.at = 0 /\ expired.returned = Some(FALSE)
C19_WitnessClock ==
    /\ expired.asked /\ ExpiresValues = {[type |-> "integer", s |-> "", n |-> MaxExpires + 1]}
    /\ expired.at > I64Max /\ expired.returned = Some(TRUE)

\* C20: WebBotAuthVerifier::verify returns NotImplemented, and assembles no
\* signature base, exactly when enforce_key_directory_lookup is true and the
\* Signature-Agent of the parsed message was a string that starts with https
\* or data; in every other case its result is that of MessageVerifier::verify
\* on the same keyring and key identifier.
C20_EnforcedLookup ==
    result.op = "web_bot_auth_verify" =>
        IF result.arg.v.enforce /\ DirectoryRecorded
        THEN ~result.ok /\ result.err = "NotImplemented" /\ assembled = None
        ELSE \E r \in {MessageVerifierVerify(web_bot_auth_verifier.v.message_verifier,
                                             KeyRing, result.arg.v.key_id)} :
                /\ result.ok = r.ok
                /\ ~r.ok => result.err = r.err /\ r.err # "NotImplemented"

\* the lookup is enforced and a key directory was recorded
C20_Witness ==
    /\ result.op = "web_bot_auth_verify"
    /\ result.arg.v.enforce
    /\ DirectoryRecorded
    /\ result.err = "NotImplemented"

\* the lookup is enforced and the Signature-Agent is no key directory:
\* verification ran
C20_WitnessDelegated ==
    /\ result.op = "web_bot_auth_verify"
    /\ result.arg.v.enforce
    /\ message.signature_agent = Some(<<"\"", "http://directory.example", "\"">>)
    /\ result.err = "FailedToVerify"
    /\ assembled.some

\* the lookup is not enforced and a key directory was recorded
C20_WitnessNotEnforced ==
    /\ result.op = "web_bot_auth_verify"
    /\ ~result.arg.v.enforce
    /\ DirectoryRecorded
    /\ result.err = "FailedToVerify"

(***************************************************************************)
(* Claims about expiry, the signer's parameters and the signature base.    *)
(***************************************************************************)

\* what is_expired() of the verifier inside the WebBotAuthVerifier returns at
\* the second possibly_insecure was asked
IsExpiredThen ==
    MessageVerifierIsExpired(web_bot_auth_verifier.v.message_verifier, insecure.at)

\* C21: possibly_insecure() returns true exactly when is_expired() is
\* Some(true); it returns false when is_expired() is None.
C21_InsecureIffExpired ==
    insecure.asked =>
        /\ insecure.returned = (IsExpiredThen = Some(TRUE))
        /\ IsExpiredThen = None => insecure.returned = FALSE

\* is_expired() is None (expires is the string "1") and possibly_insecure()
\* returned false
C21_Witness ==
    /\ insecure.asked
    /\ IsExpiredThen = None
    /\ insecure.returned = FALSE

\* possibly_insecure() returned true, and false, on signatures that expire
C21_WitnessExpired ==
    insecure.asked /\ IsExpiredThen = Some(TRUE) /\ insecure.returned = TRUE
C21_WitnessFresh ==
    insecure.asked /\ IsExpiredThen = Some(FALSE) /\ insecure.returned = FALSE

\* the signature the verifier holds is that of a signing key over the base the
\* verifier assembles, and the keyring holds the public key under the
\* identifier verify looks up
CryptographicallyValid ==
    /\ VerifyRan
    /\ into_ascii(Verified.base).ok
    /\ \E key \in KeysUnder(KeyChoice) :
          \E sk \in SigningKeys :
              /\ key = PublicKeyOf(sk)
              /\ Verified.signature = Ed25519Sign(sk, into_ascii(Verified.base).val[1])

\* the signature is expired at the second the clock shows
ExpiredNow == is_expired(Verified.base, now) = Some(TRUE)

C22_WitnessExpired ==
    result.op = "verify" /\ CryptographicallyValid /\ ExpiredNow /\ result.ok
C22_WitnessFresh ==
    result.op = "verify" /\ CryptographicallyValid /\ ~ExpiredNow /\ result.ok

\* the values of the parameter under key
ValuesOf(params, key) ==
    {params[i].val : i \in {j \in DOMAIN params : params[j].key = key}}

\* the parameters carry created = t0 and expires = t0 + d
CarriesTimes(params, t0, d) ==
    /\ ValuesOf(params, "created") = {[type |-> "integer", s |-> "", n |-> t0]}
    /\ ValuesOf(params, "expires") = {[type |-> "integer", s |-> "", n |-> t0 + d]}
    /\ \A c \in ValuesOf(params, "created") : \A e \in ValuesOf(params, "expires") :
          c.n <= e.n

\* C23: a message signed at second t0 with an expires Duration of d seconds
\* carries created = t0 and expires = t0 + d, and a WebBotAuthVerifier parsed
\* from it answers possibly_insecure() with false at every second t with
\* t0 <= t < t0 + d and with true at every second t >= t0 + d.
C23_FreshAfterSigning ==
    signed.some =>
        /\ CarriesTimes(EntryInnerListOf(message).params, signed.v.at, signed.v.expires)
        /\ insecure.asked =>
              insecure.returned = (insecure.at >= signed.v.at + signed.v.expires)

\* possibly_insecure() is false at the second of a signing with d = 1
C23_Witness ==
    /\ signed.some
    /\ signed.v.expires = 1
    /\ insecure.asked
    /\ insecure.at = signed.v.at
    /\ insecure.returned = FALSE

\* it is true one second later, and at once when d = 0
C23_WitnessLater ==
    /\ signed.some /\ signed.v.expires = 1 /\ insecure.asked
    /\ insecure.at = signed.v.at + 1 /\ insecure.returned = TRUE
C23_WitnessAtOnce ==
    /\ signed.some /\ signed.v.expires = 0 /\ insecure.asked
    /\ insecure.at = signed.v.at /\ insecure.returned = TRUE

\* the six parameters as the claim lists them, for this signer and a signing
\* at second t0 with the Duration d
SixParameters(s, t0, d) ==
    <<[key |-> "alg", val |-> [type |-> "string", s |-> "ed25519", n |-> 0]],
      [key |-> "keyid", val |-> [type |-> "string", s |-> s.keyid, n |-> 0]],
      [key |-> "nonce", val |-> [type |-> "string", s |-> s.nonce, n |-> 0]],
      [key |-> "tag", val |-> [type |-> "string", s |-> s.tag, n |-> 0]],
      [key |-> "created", val |-> [type |-> "integer", s |-> "", n |-> t0]],
      [key |-> "expires", val |-> [type |-> "integer", s |-> "", n |-> t0 + d]]>>

\* their text in the header
SixParametersText(s, t0, d) ==
    <<";", "alg", "=", "\"", "ed25519", "\"",
      ";", "keyid", "=", "\"", s.keyid, "\"",
      ";", "nonce", "=", "\"", s.nonce, "\"",
      ";", "tag", "=", "\"", s.tag, "\"",
      ";", "created", "=", ToString(t0),
      ";", "expires", "=", ToString(t0 + d)>>

\* the text is an inner list in parentheses followed by the text tail
InnerListThen(text, tail) ==
    /\ Len(text) >= Len(tail) + 2
    /\ text[1] = "("
    /\ text[Len(text) - Len(tail)] = ")"
    /\ SubSeq(text, Len(text) - Len(tail) + 1, Len(text)) = tail

\* C24: every Signature-Input value generate_signature_headers_content
\* registers carries exactly the parameters alg, keyid, nonce, tag, created,
\* expires, in that order, after the inner list of the covered components,
\* with alg = "ed25519" and keyid, nonce and tag the strings of the signer.
C24_SignerParameterOrder ==
    signed.some =>
        /\ message.registered = 1
        /\ Len(ParseDictionary(message.signature_input.v).val) = 1
        /\ EntryInnerListOf(message).params
              = SixParameters(signer, signed.v.at, signed.v.expires)
        /\ InnerListThen(EntryText,
                         SixParametersText(signer, signed.v.at, signed.v.expires))

\* a signing that covered two components has registered its headers
C24_Witness ==
    /\ signed.some
    /\ result.op = "sign"
    /\ Len(message.components) = 2
    /\ Len(EntryInnerListOf(message).params) = 6

\* generate_signature_headers_content has returned, for a signer whose
\* keyid, nonce and tag are strings sfv accepts
SignReturned ==
    /\ result.op = "sign"
    /\ signer = [keyid |-> "k1", nonce |-> "n1", tag |-> "web-bot-auth"]

\* the clock reading of that call (the clock moves on only after a signing
\* that succeeded)
ReadAt == IF signed.some THEN signed.v.at ELSE now

\* the clock is before the epoch, or its seconds, or its seconds plus the
\* Duration, do not fit a signed 64-bit integer
ClockOutOfRange ==
    \/ ReadAt < 0
    \/ ReadAt > I64Max
    \/ ReadAt + result.arg.v.expires > I64Max

\* the message holds no header
NothingRegistered ==
    /\ message.registered = 0
    /\ message.signature_input = None
    /\ message.signature_header = None

\* C25: generate_signature_headers_content returns normally at every clock
\* reading and Duration; when the clock is before the epoch, or the seconds
\* or the seconds plus the Duration do not fit a signed 64-bit integer, it
\* returns TimeError and registers nothing; otherwise the integers created
\* and expires it emits are in the range of a structured field integer.
C25_SignerClockRange ==
    SignReturned =>
        /\ result.err # "panic"
        /\ ClockOutOfRange =>
              ~result.ok /\ result.err = "TimeError" /\ NothingRegistered
        /\ (~ClockOutOfRange /\ result.ok) =>
              ReadAt + result.arg.v.expires <= SfvIntegerMax

\* what the code does: TimeError before the epoch, ParsingError when the
\* seconds or the sum do not fit 64 bits, a panic of sfv::Integer::constant
\* when they fit 64 bits and exceed the range of a structured field integer;
\* nothing is registered in any of these cases
C25_SignerClockAsCoded ==
    SignReturned =>
        /\ ReadAt < 0 => result.err = "TimeError"
        /\ (ReadAt >= 0 /\ ClockOutOfRange) => result.err = "ParsingError"
        /\ (~ClockOutOfRange /\ ReadAt + result.arg.v.expires > SfvIntegerMax)
              => result.err = "panic"
        /\ (~ClockOutOfRange /\ ReadAt + result.arg.v.expires <= SfvIntegerMax)
              => result.err \notin {"TimeError", "panic"}
        /\ ~result.ok => NothingRegistered

\* the seconds fit 64 bits and exceed the largest structured field integer:
\* the call panicked
C25_Witness ==
    /\ SignReturned
    /\ ReadAt > SfvIntegerMax
    /\ ReadAt + result.arg.v.expires <= I64Max
    /\ result.err = "panic"

\* the seconds do not fit 64 bits: ParsingError, not TimeError
C25_WitnessParsingError ==
    SignReturned /\ ReadAt > I64Max /\ result.err = "ParsingError"
C25_WitnessBeforeEpoch ==
    SignReturned /\ ReadAt < 0 /\ result.err = "TimeError" /\ NothingRegistered

\* the signature is that of the signing key of this public key over the text
SignatureOf(key, text, signature) ==
    \E sk \in SigningKeys : key = PublicKeyOf(sk) /\ signature = Ed25519Sign(sk, text)

\* the outcome of the steps after the base is assembled and the key chosen:
\* the length of the key, the length of the signature, the cryptographic check
CheckedWith(key, base) ==
    IF key \in ShortKeys THEN ~result.ok /\ result.err = "InvalidKeyLength"
    ELSE IF Verified.signature \in ShortSignatures
    THEN ~result.ok /\ result.err = "InvalidSignatureLength"
    ELSE IF ~SignatureOf(key, base.val[1], Verified.signature)
    THEN ~result.ok /\ result.err = "FailedToVerify"
    ELSE result.ok

\* the order of the claim: the base, then the key, then the three checks
BaseThenKey(base) ==
    IF ~base.ok THEN ~result.ok /\ result.err = base.err
    ELSE IF KeysUnder(KeyChoice) = {} THEN ~result.ok /\ result.err = "NoSuchKey"
    ELSE \E key \in KeysUnder(KeyChoice) : CheckedWith(key, base)

\* the order of the code: the key, then the base, then the three checks
KeyThenBase(base) ==
    IF KeysUnder(KeyChoice) = {} THEN ~result.ok /\ result.err = "NoSuchKey"
    ELSE IF ~base.ok THEN ~result.ok /\ result.err = base.err
    ELSE \E key \in KeysUnder(KeyChoice) : CheckedWith(key, base)

C26_WitnessLengths ==
    /\ VerifyRan
    /\ KeysUnder(KeyChoice) = {"pk-31-bytes"}
    /\ Verified.signature = "sig-63-bytes"
    /\ result.err = "InvalidKeyLength"

\* a base that is not ASCII under a key the keyring holds
C26_WitnessNonAscii ==
    /\ VerifyRan
    /\ ~into_ascii(Verified.base).ok
    /\ KeysUnder(KeyChoice) # {}
    /\ result.err = into_ascii(Verified.base).err
C26_WitnessSignatureLength ==
    VerifyRan /\ result.err = "InvalidSignatureLength"

\* the string of the Signature-Agent of the message when it is a string
AgentString == message.signature_agent.v[2]

\* the message without its Signature-Agent header
WithoutAgent == [message EXCEPT !.signature_agent = None]

\* what parse returned is what r is
ParseReturnedAs(r) ==
    /\ result.ok = r.ok
    /\ r.ok => web_bot_auth_verifier = Some(r.val)
    /\ ~r.ok => result.err = r.err /\ web_bot_auth_verifier = None

\* C27: WebBotAuthVerifier::parse records a key directory exactly when the
\* Signature-Agent header is present, is a structured field item and its bare
\* value is a string that begins with https or data; a header of another
\* shape is ignored, parse going on as if the header were absent; a header
\* that is not a structured field item makes parse fail with ParsingError
\* whatever Signature and Signature-Input hold.
C27_SignatureAgent ==
    result.op = "web_bot_auth_parse" =>
        IF ~AgentReadable
        THEN ~result.ok /\ result.err = "ParsingError" /\ web_bot_auth_verifier = None
        ELSE IF DirectoryRecorded
        THEN result.ok => web_bot_auth_verifier.v.key_directory = Some(AgentString)
        ELSE /\ result.ok => web_bot_auth_verifier.v.key_directory = None
             /\ ParseReturnedAs(WebBotAuthVerifierParse(WithoutAgent, result.arg))

\* a Signature-Agent that is a string with another prefix was ignored
C27_Witness ==
    /\ result.op = "web_bot_auth_parse"
    /\ message.signature_agent = Some(<<"\"", "http://directory.example", "\"">>)
    /\ result.ok
    /\ web_bot_auth_verifier.v.key_directory = None

\* a key directory was recorded; an integer was ignored; a header that is no
\* item stopped the parse of a message that is accepted without it
C27_WitnessRecorded ==
    /\ result.op = "web_bot_auth_parse" /\ result.ok
    /\ web_bot_auth_verifier.v.key_directory = Some("data:application/jwk")
C27_WitnessInteger ==
    /\ result.op = "web_bot_auth_parse" /\ result.ok
    /\ message.signature_agent = Some(<<"1">>)
    /\ web_bot_auth_verifier.v.key_directory = None
C27_WitnessUnreadable ==
    /\ result.op = "web_bot_auth_parse" /\ ~AgentReadable
    /\ result.err = "ParsingError"
    /\ WebBotAuthVerifierParse(WithoutAgent, result.arg).ok

\* the parameters of a member that have the key and a value of the type
Typed(params, key, type) ==
    {i \in DOMAIN params : params[i].key = key /\ params[i].val.type = type}

\* the string under the key, when the member has one
StringUnder(params, key) ==
    IF Typed(params, key, "string") = {} THEN None
    ELSE Some(params[CHOOSE i \in Typed(params, key, "string") : TRUE].val.s)

\* the integer under the key, when the member has one
IntegerUnder(params, key) ==
    IF Typed(params, key, "integer") = {} THEN None
    ELSE Some(params[CHOOSE i \in Typed(params, key, "integer") : TRUE].val.n)

\* the six keys the conversion reads
ReadKeys == {"alg", "keyid", "nonce", "tag", "created", "expires"}

\* the parameters p are what the conversion makes of the parameters m
ConvertedFrom(p, m) ==
    /\ p.raw = m
    /\ p.details.keyid = StringUnder(m, "keyid")
    /\ p.details.nonce = StringUnder(m, "nonce")
    /\ p.details.tag = StringUnder(m, "tag")
    /\ p.details.created = IntegerUnder(m, "created")
    /\ p.details.expires = IntegerUnder(m, "expires")
    /\ p.details.algorithm =
         (IF StringUnder(m, "alg") = Some("ed25519") THEN Some("Ed25519") ELSE None)

\* C28: the conversion of a member's parameters into SignatureParams always
\* succeeds: the verifier produced by a parse keeps the parameters of the
\* member it selected unchanged as raw, and each of keyid, nonce, tag, created
\* and expires is Some exactly when the member has the parameter with the
\* expected type (a string for the first three, an integer for the last two),
\* with that value; algorithm is Some(Ed25519) exactly when alg is the string
\* ed25519; a key outside the six changes nothing but raw.
C28_ParamsConversion ==
    (ParseReturned /\ Produced.some) =>
        ConvertedFrom(Produced.v.base.parameters, FirstCandidate.entry.params)

\* a verifier was produced from a member with a parameter of an unexpected type
C28_Witness ==
    /\ ParseReturned /\ Produced.some
    /\ \E i \in DOMAIN FirstCandidate.entry.params :
          /\ FirstCandidate.entry.params[i].key = "expires"
          /\ FirstCandidate.entry.params[i].val.type = "string"
    /\ Produced.v.base.parameters.details.expires = None

\* ... from a member with a key the conversion does not read
C28_WitnessUnknownKey ==
    /\ ParseReturned /\ Produced.some
    /\ \E i \in DOMAIN FirstCandidate.entry.params :
          FirstCandidate.entry.params[i].key \notin ReadKeys
    /\ Produced.v.base.parameters.details.keyid = Some("k1")

\* ... from a member whose alg is a string other than ed25519, or a token
C28_WitnessAlgorithm ==
    /\ ParseReturned /\ Produced.some
    /\ \E i \in DOMAIN FirstCandidate.entry.params :
          /\ FirstCandidate.entry.params[i].key = "alg"
          /\ FirstCandidate.entry.params[i].val = BareToken("ed25519")
    /\ Produced.v.base.parameters.details.algorithm = None

\* ... from a member with a nonce of each type
C28_WitnessNonce ==
    /\ ParseReturned /\ Produced.some
    /\ \E i \in DOMAIN FirstCandidate.entry.params :
          /\ FirstCandidate.entry.params[i].key = "nonce"
          /\ FirstCandidate.entry.params[i].val.type = "integer"
    /\ Produced.v.base.parameters.details.nonce = None

\* get_details() of the WebBotAuthVerifier a parse returned
AcceptedDetails == web_bot_auth_verifier.v.message_verifier.base.parameters.details

\* the parameters of the member it was made of
AcceptedRaw == web_bot_auth_verifier.v.message_verifier.base.parameters.raw

\* C29: every WebBotAuthVerifier that parse returns has keyid, tag, created
\* and expires present in its details, with tag equal to web-bot-auth, so
\* that is_expired() is never None: a signature whose expires or created is
\* not an integer is not accepted.
C29_ProfilePresence ==
    web_bot_auth_verifier.some =>
        /\ AcceptedDetails.keyid.some
        /\ AcceptedDetails.tag = Some("web-bot-auth")
        /\ AcceptedDetails.created.some
        /\ AcceptedDetails.expires.some
        /\ \A t \in -1..LastSecond :
              MessageVerifierIsExpired(web_bot_auth_verifier.v.message_verifier, t) # None

\* what the selector of WebBotAuthVerifier::parse does establish: the four
\* keys are among the parameters of the member, and tag is the string
\* web-bot-auth
C29_ProfileKeys ==
    web_bot_auth_verifier.some =>
        /\ {"keyid", "tag", "created", "expires"} \subseteq ParamKeys(AcceptedRaw)
        /\ AcceptedDetails.tag = Some("web-bot-auth")

\* a message whose expires is the string "1" was accepted, its details have no
\* expires, and possibly_insecure() answered false at a second past 1
C29_Witness ==
    /\ web_bot_auth_verifier.some
    /\ ParamsGet(AcceptedRaw, "expires") = Some(BareString("1"))
    /\ AcceptedDetails.expires = None
    /\ insecure.asked /\ insecure.at > 1 /\ insecure.returned = FALSE

\* messages accepted with a created that is a string, and with a keyid that is
\* an integer
C29_WitnessCreated ==
    /\ web_bot_auth_verifier.some
    /\ ParamsGet(AcceptedRaw, "created") = Some(BareString("0"))
    /\ AcceptedDetails.created = None
C29_WitnessKeyid ==
    /\ web_bot_auth_verifier.some
    /\ ParamsGet(AcceptedRaw, "keyid") = Some(BareInteger(1))
    /\ AcceptedDetails.keyid = None

\* an accepted message with all four details present
C29_WitnessPresent ==
    /\ web_bot_auth_verifier.some
    /\ AcceptedDetails.keyid.some /\ AcceptedDetails.created.some
    /\ AcceptedDetails.expires.some

\* into_ascii returned a base string for both signature bases
BothAssembled ==
    /\ conv.ascii_one.some /\ conv.ascii_one.v.ok
    /\ conv.ascii_other.some /\ conv.ascii_other.v.ok

\* the two base strings are the same
SameBase == conv.ascii_one.v.val[1] = conv.ascii_other.v.val[1]

\* the two bases give the same value to every component
SameValues ==
    \A i \in DOMAIN conv.one.components :
        conv.one.components[i].value = conv.other.components[i].value

\* a value of either base contains a line feed
LineFed(base) ==
    \E i \in DOMAIN base.components :
        \E k \in DOMAIN base.components[i].value : base.components[i].value[k] = "\n"

\* C30: for a fixed ordered list of covered components and fixed signature
\* parameters, two different assignments of value strings never produce the
\* same base string from into_ascii, also when the values contain line feeds
\* or text that looks like a component line.
C30_BaseUnambiguous ==
    (BothAssembled /\ SameBase) => SameValues

\* what into_ascii does provide: two different assignments produce different
\* base strings when no value contains a line feed, and when one component
\* only is covered
C30_UnambiguousLines ==
    (BothAssembled /\ SameBase
       /\ \/ ~LineFed(conv.one) /\ ~LineFed(conv.other)
          \/ Len(conv.one.components) = 1)
    => SameValues

\* two different assignments, one with a value that continues with a line
\* for @path, were assembled to the same base string
C30_Witness ==
    /\ BothAssembled /\ SameBase /\ ~SameValues
    /\ conv.one.components[1].value
         = <<"x", "\n">> \o ComponentLine(Derived("Path", FALSE), <<"y">>)
    /\ conv.other.components[1].value = <<"x">>

\* two different assignments with line feeds in their values were assembled
\* to different base strings
C30_WitnessDistinct ==
    /\ BothAssembled /\ ~SameBase /\ ~SameValues
    /\ LineFed(conv.one) /\ LineFed(conv.other)
====
